---- MODULE Spec2Model ----
(***************************************************************************)
(* SignalBus daemon (signalbus/src/daemon.rs, models.rs): the shared       *)
(* DaemonState, the connection tasks of handle_client at the granularity   *)
(* of their lock acquisitions and channel operations, and the sweeper.     *)
(*                                                                         *)
(* Strings that the code inspects (signal names, patterns) are sequences   *)
(* of one-character strings.  Option<T> is a sequence of length 0 (None)   *)
(* or 1 (Some).  A HashMap is a function whose DOMAIN is its key set.      *)
(***************************************************************************)
EXTENDS Integers, Sequences, FiniteSets, TLC

\* ------------------------------------------------------------- bounds
\* number of connection tasks that exist at the same time (one more in the
\* wide specifications)
NumConns == 2
\* next_id is a u64; emits are accepted by the model while next_id <= MaxId
\* (one more in SpecHist)
MaxId == 2
\* senders ever registered in the subscription registry (one more in the
\* wide specifications)
MaxSubs == 1
\* the clocks (SystemTime seconds, Instant) run from 0 to MaxTime
MaxTime == 1
\* longest string handed to pattern_match in SpecMatch
MaxLen == 3
\* async_channel::bounded(100), scaled down
QueueCap == 1
\* max_history_size: 1000, scaled down
max_history_size == 2
\* 2^64, the number of u64 values (timestamp, ttl), scaled down
U64Mod == 4

Conns == 1..NumConns
WideConns == 1..(NumConns + 1)
\* the task slots of the daemon: two publishers next to two listeners fit
TaskSlots == 1..(NumConns + 2)
Times == 0..MaxTime

None == <<>>
Some(x) == <<x>>

\* ------------------------------------------------------------- strings
Chars == {"a", ":", "*"}

RECURSIVE StrsOfLen(_)
StrsOfLen(n) ==
    IF n = 0 THEN {<<>>}
    ELSE {Append(s, ch) : s \in StrsOfLen(n - 1), ch \in Chars}

Strs == UNION {StrsOfLen(n) : n \in 0..MaxLen}

\* str::ends_with
ends_with(s, suffix) ==
    /\ Len(s) >= Len(suffix)
    /\ SubSeq(s, Len(s) - Len(suffix) + 1, Len(s)) = suffix

\* str::starts_with
starts_with(s, prefix) ==
    /\ Len(s) >= Len(prefix)
    /\ SubSeq(s, 1, Len(prefix)) = prefix

\* models.rs pattern_match: the prefix is the pattern without its last TWO
\* characters, so the ':' is not part of it
pattern_match(pattern, signal_name) ==
    IF ends_with(pattern, <<":", "*">>)
    THEN LET prefix == SubSeq(pattern, 1, Len(pattern) - 2)
         IN  starts_with(signal_name, prefix)
    ELSE IF pattern = <<"*">> THEN TRUE
    ELSE pattern = signal_name

\* ------------------------------------------------------------- domains
Permissions == {"Read", "Write", "History", "RateLimit", "Admin"}
UserIds == {"admin", "bob"}
\* the strings the random token generator can return (32 characters in the
\* code, two distinct strings here)
TokenStrs == {"t1", "t2"}
\* signal names and patterns used by the requests of the daemon specifications
NameA == <<"a">>
NameAB == <<"a", ":", "b">>
PatAStar == <<"a", ":", "*">>
PatStar == <<"*">>
SignalNames == {NameA, NameAB}
Patterns == {PatAStar, NameA, PatStar}

\* holder of a tokio Mutex across an await: Some(connection task), or nobody
Free == None
LockNames == {"subscribers", "signal_history", "rate_limits",
              "signal_counters", "users", "auth_tokens"}

\* HashMap::insert / HashMap::remove
MapInsert(m, k, v) == [x \in DOMAIN m \cup {k} |-> IF x = k THEN v ELSE m[x]]
MapRemove(m, k) == [x \in DOMAIN m \ {k} |-> m[x]]
EmptyMap == [x \in {} |-> 0]

VARIABLES
    \* DaemonState
    subscribers,      \* pattern -> sequence of senders (channel ids)
    signal_history,   \* VecDeque<PersistentSignal>
    next_id,          \* AtomicU64
    rate_limits,      \* pattern -> RateLimitRule
    signal_counters,  \* pattern -> VecDeque<Instant>
    users,            \* user id -> User
    auth_tokens,      \* token string -> AuthToken
    default_tokens,   \* "admin" -> token string
    \* environment of the daemon
    channels,         \* channel id -> [queue, rx_open]: async_channel::bounded
    rl_order,         \* iteration order of the rate_limits HashMap
    held,             \* lock name -> holder
    now,              \* the clocks (SystemTime in seconds, Instant)
    \* connection tasks (handle_client) and the sweeper task
    pc, req, loc, last, peer_open, sw_pc,
    \* history variables: admissions per rule since the rule was last set,
    \* and the token strings that a REVOKE_TOKEN has removed
    adm_by, adm_match, revoked,
    \* history variable: the clock reading of the last completed sweep
    last_sweep,
    \* arguments and result of one pattern_match call
    m_pattern, m_name, m_result

store_vars == <<subscribers, signal_history, next_id, rate_limits,
                signal_counters, users, auth_tokens, default_tokens>>
env_vars == <<channels, rl_order, held, now>>
task_vars == <<pc, req, loc, last, peer_open, sw_pc>>
rate_ghost == <<adm_by, adm_match>>
ghost_vars == <<rate_ghost, revoked, last_sweep>>
match_vars == <<m_pattern, m_name, m_result>>
vars == <<store_vars, env_vars, task_vars, ghost_vars, match_vars>>

\* ------------------------------------------------------------- requests
NoReq == [cmd |-> "NONE"]
NoLoc == [id |-> 0, todo |-> <<>>, rx |-> 0, cur |-> None, gen |-> None]
\* last: the line that the latest step wrote to a client (with the connection
\* and its request), NoLast when that step wrote none
NoLast == [conn |-> 0, req |-> NoReq, resp |-> <<>>]

\* the request lines, parsed
EmitReq(tok, n, ts, ttl) ==
    [cmd |-> "EMIT", token |-> tok, name |-> n, timestamp |-> ts, ttl |-> ttl]
ListenReq(tok, p) == [cmd |-> "LISTEN", token |-> tok, name |-> p]
HistoryReq(tok, p, l) ==
    [cmd |-> "HISTORY", token |-> tok, name |-> p, limit |-> l]
RateLimitReq(tok, p, m, w) ==
    [cmd |-> "RATE_LIMIT", token |-> tok, name |-> p, max |-> m, window |-> w]
ShowReq(tok) == [cmd |-> "SHOW_RATE_LIMITS", token |-> tok]
LoginReq(u, cr) == [cmd |-> "LOGIN", user |-> u, cred |-> cr]
CreateTokenReq(tok, u, ps, e) ==
    [cmd |-> "CREATE_TOKEN", token |-> tok, user |-> u, perms |-> ps,
     expires_in |-> e]
RevokeReq(tok, target) ==
    [cmd |-> "REVOKE_TOKEN", token |-> tok, target |-> target]

\* the permission each command hands to authenticate
RequiredPermission(cmd) ==
    CASE cmd = "EMIT" -> "Write"
      [] cmd = "LISTEN" -> "Read"
      [] cmd = "HISTORY" -> "History"
      [] cmd = "RATE_LIMIT" -> "RateLimit"
      [] cmd = "SHOW_RATE_LIMITS" -> "Read"
      [] cmd = "CREATE_TOKEN" -> "Admin"
      [] cmd = "REVOKE_TOKEN" -> "Admin"

\* the first step of the handler after a successful authenticate
AfterAuth(cmd) ==
    CASE cmd = "EMIT" -> "rate"
      [] cmd = "LISTEN" -> "subscribe"
      [] cmd = "HISTORY" -> "history"
      [] cmd = "RATE_LIMIT" -> "set_rate"
      [] cmd = "SHOW_RATE_LIMITS" -> "show_lock"
      [] cmd = "CREATE_TOKEN" -> "add_user"
      [] cmd = "REVOKE_TOKEN" -> "revoke"

\* response lines
AuthErr == <<"ERROR:Authentication failed or insufficient permissions">>
RateErr(n) == <<"ERROR:Rate limit exceeded for signal: ", n>>
RespOK == <<"OK">>

\* ------------------------------------------------------------- the code's functions
\* mutant: Admin does not stand for the other permissions
authenticate_NoAdmin(tokens, token, required_permission, t) ==
    IF token \in DOMAIN tokens
    THEN LET auth_token == tokens[token]
         IN  IF auth_token.expires_at # None /\ t > auth_token.expires_at[1]
             THEN FALSE
             ELSE IF required_permission # None
                  THEN required_permission[1] \in auth_token.permissions
                  ELSE TRUE
    ELSE FALSE

\* mutant: the permissions are those of the owning user's record now
authenticate_LivePermissions(tokens, token, required_permission, t) ==
    IF token \in DOMAIN tokens
    THEN LET auth_token == tokens[token]
             permissions == IF auth_token.user_id \in DOMAIN users
                            THEN users[auth_token.user_id].permissions
                            ELSE auth_token.permissions
         IN  IF auth_token.expires_at # None /\ t > auth_token.expires_at[1]
             THEN FALSE
             ELSE IF required_permission # None
                  THEN \/ required_permission[1] \in permissions
                       \/ "Admin" \in permissions
                  ELSE TRUE
    ELSE FALSE

\* DaemonState::authenticate, on the token table `tokens` at SystemTime `t`
authenticate(tokens, token, required_permission, t) ==
    IF token \in DOMAIN tokens
    THEN LET auth_token == tokens[token]
         IN  IF auth_token.expires_at # None /\ t > auth_token.expires_at[1]
             THEN FALSE
             ELSE IF required_permission # None
                  THEN \/ required_permission[1] \in auth_token.permissions
                       \/ "Admin" \in auth_token.permissions
                  ELSE TRUE
    ELSE FALSE

\* DaemonState::get_user_permissions
get_user_permissions(us, user_id) ==
    IF user_id \in DOMAIN us THEN us[user_id].permissions
    ELSE {"Read", "Write"}

\* the AuthToken generate_token builds for `user_id` at SystemTime t
\* (created_at, which the daemon writes and never reads, is left out)
NewAuthToken(us, user_id, expires_in, t) ==
    [user_id |-> user_id,
     permissions |-> get_user_permissions(us, user_id),
     expires_at |-> IF expires_in = None THEN None ELSE Some(t + expires_in[1])]

\* mutant: the history is never trimmed
PushHistory_NoTrim(history, ps) == Append(history, ps)

\* add_to_history under the history lock: push_back, then pop_front while
\* the length exceeds max_history_size
PushHistory(history, ps) ==
    LET pushed == Append(history, ps)
    IN  IF Len(pushed) > max_history_size
        THEN SubSeq(pushed, Len(pushed) - max_history_size + 1, Len(pushed))
        ELSE pushed

\* Iterator::rev().filter(..).take(limit) of get_recent_signals
RECURSIVE RecentFrom(_, _, _, _)
RecentFrom(history, i, pattern, limit) ==
    IF i = 0 \/ limit = 0 THEN <<>>
    ELSE IF pattern_match(pattern, history[i].signal.name)
         THEN <<history[i]>> \o RecentFrom(history, i - 1, pattern, limit - 1)
         ELSE RecentFrom(history, i - 1, pattern, limit)

\* DaemonState::get_recent_signals
get_recent_signals(history, pattern, limit) ==
    RecentFrom(history, Len(history), pattern, limit)

\* u64 addition as a build without overflow checks computes it
wrapping_add(a, b) == (a + b) % U64Mod

\* `ps.signal.timestamp + ttl` does not fit a u64
AddOverflows(ps) ==
    ps.ttl # None /\ ps.signal.timestamp + ps.ttl[1] >= U64Mod

\* the predicate of the retain in cleanup_expired
NotExpired(ps, t) ==
    IF ps.ttl # None THEN wrapping_add(ps.signal.timestamp, ps.ttl[1]) > t
    ELSE TRUE

\* DaemonState::cleanup_expired at SystemTime t (VecDeque::retain)
cleanup_expired(history, t) ==
    SelectSeq(history, LAMBDA ps : NotExpired(ps, t))

\* the while-let loop of check_rate_limit: pop the front while it is older
\* than the window
RECURSIVE PopExpiredFront(_, _, _)
PopExpiredFront(counter, t, time_window) ==
    IF counter # <<>> /\ t - Head(counter) > time_window
    THEN PopExpiredFront(Tail(counter), t, time_window)
    ELSE counter

\* the patterns of the rules that match, in the HashMap's iteration order
MatchingRules(order, signal_name) ==
    SelectSeq(order, LAMBDA p : pattern_match(p, signal_name))

\* mutant: a rejected attempt is counted as well
check_rate_limit_CountsRejected(limits, order, counters, signal_name, t) ==
    LET matching == MatchingRules(order, signal_name)
    IN  IF matching = <<>>
        THEN [ok |-> TRUE, counters |-> counters, rule |-> None]
        ELSE LET pattern == Head(matching)
                 rule == limits[pattern]
                 old == IF pattern \in DOMAIN counters THEN counters[pattern]
                        ELSE <<>>
                 counter == PopExpiredFront(old, t, rule.time_window)
             IN  [ok |-> Len(counter) < rule.max_signals,
                  counters |-> MapInsert(counters, pattern, Append(counter, t)),
                  rule |-> Some(pattern)]

\* mutant: one admission too many (len > max instead of len >= max)
check_rate_limit_OffByOne(limits, order, counters, signal_name, t) ==
    LET matching == MatchingRules(order, signal_name)
    IN  IF matching = <<>>
        THEN [ok |-> TRUE, counters |-> counters, rule |-> None]
        ELSE LET pattern == Head(matching)
                 rule == limits[pattern]
                 old == IF pattern \in DOMAIN counters THEN counters[pattern]
                        ELSE <<>>
                 counter == PopExpiredFront(old, t, rule.time_window)
             IN  IF Len(counter) > rule.max_signals
                 THEN [ok |-> FALSE,
                       counters |-> MapInsert(counters, pattern, counter),
                       rule |-> Some(pattern)]
                 ELSE [ok |-> TRUE,
                       counters |-> MapInsert(counters, pattern, Append(counter, t)),
                       rule |-> Some(pattern)]

\* DaemonState::check_rate_limit under both locks at Instant t: the first
\* matching rule in iteration order decides
check_rate_limit(limits, order, counters, signal_name, t) ==
    LET matching == MatchingRules(order, signal_name)
    IN  IF matching = <<>>
        THEN [ok |-> TRUE, counters |-> counters, rule |-> None]
        ELSE LET pattern == Head(matching)
                 rule == limits[pattern]
                 old == IF pattern \in DOMAIN counters THEN counters[pattern]
                        ELSE <<>>
                 counter == PopExpiredFront(old, t, rule.time_window)
             IN  IF Len(counter) >= rule.max_signals
                 THEN [ok |-> FALSE,
                       counters |-> MapInsert(counters, pattern, counter),
                       rule |-> Some(pattern)]
                 ELSE [ok |-> TRUE,
                       counters |-> MapInsert(counters, pattern, Append(counter, t)),
                       rule |-> Some(pattern)]

\* DaemonState::cleanup_rate_limit_counters under both locks at Instant t
cleanup_rate_limit_counters(limits, counters, t) ==
    [p \in DOMAIN counters |->
        IF p \in DOMAIN limits
        THEN SelectSeq(counters[p], LAMBDA ts : t - ts <= limits[p].time_window)
        ELSE counters[p]]

\* ------------------------------------------------------------- initial state
\* expires_in of the token a LOGIN issues: 3600 s, scaled to the model's clock
LOGIN_EXPIRES_IN == 1

AdminUser == [password_hash |-> "admin123", permissions |-> Permissions]
ZeroCounts == [p \in Patterns |-> [t \in Times |-> 0]]

\* the string the generator draws for the admin token (any of TokenStrs, which
\* are interchangeable)
InitialToken == "t1"

\* DaemonState::new and initialize_default_users: the admin user, and its
\* non-expiring token under the string the generator drew
DaemonInit ==
    /\ subscribers = EmptyMap
    /\ signal_history = <<>>
    /\ next_id = 1
    /\ rate_limits = EmptyMap
    /\ signal_counters = EmptyMap
    /\ users = MapInsert(EmptyMap, "admin", AdminUser)
    /\ auth_tokens = MapInsert(EmptyMap, InitialToken,
            NewAuthToken(MapInsert(EmptyMap, "admin", AdminUser), "admin", None, 0))
    /\ default_tokens = MapInsert(EmptyMap, "admin", InitialToken)
    /\ channels = <<>>
    /\ rl_order = <<>>
    /\ held = [l \in LockNames |-> Free]
    /\ now = 0
    /\ pc = [c \in TaskSlots |-> "idle"]
    /\ req = [c \in TaskSlots |-> NoReq]
    /\ loc = [c \in TaskSlots |-> NoLoc]
    /\ last = NoLast
    /\ peer_open = [c \in TaskSlots |-> TRUE]
    /\ sw_pc = "expired"
    /\ adm_by = ZeroCounts
    /\ adm_match = ZeroCounts
    /\ revoked = {}
    /\ last_sweep = None

Init ==
    /\ DaemonInit
    /\ m_pattern = <<>>
    /\ m_name = <<>>
    /\ m_result = None

\* ------------------------------------------------------------- connection tasks
\* the handler of connection c writes `line` in answer to request r and returns
ReplyTo(c, r, line) ==
    /\ pc' = [pc EXCEPT ![c] = "idle"]
    /\ req' = [req EXCEPT ![c] = NoReq]
    /\ loc' = [loc EXCEPT ![c] = NoLoc]
    /\ last' = [conn |-> c, req |-> r, resp |-> line]

Reply(c, line) == ReplyTo(c, req[c], line)

\* the handler of connection c moves on to its next await
Goto(c, p) ==
    /\ pc' = [pc EXCEPT ![c] = p]
    /\ req' = req
    /\ last' = NoLast

\* emits that have not yet fetched their id, listens not yet subscribed
PendingEmits == {d \in TaskSlots : pc[d] \in {"rate", "alloc_id"}}
PendingListens == {d \in TaskSlots : pc[d] = "subscribe"}

\* the model's bounds on the requests it lets in: ids up to max_id, at most
\* max_subs senders in the registry
WithinBounds(r, max_id, max_subs) ==
    /\ r.cmd = "EMIT" => next_id + Cardinality(PendingEmits) <= max_id
    /\ r.cmd = "LISTEN" => Len(channels) + Cardinality(PendingListens) < max_subs

\* a new connection takes the lowest free task slot
CanAccept(c, r) ==
    /\ pc[c] = "idle"
    /\ \A d \in TaskSlots : d < c => pc[d] # "idle"

\* mutant: a request that fails authentication is served all the same
Accept_SkipAuth(c, r) ==
    /\ CanAccept(c, r)
    /\ pc' = [pc EXCEPT ![c] = IF r.cmd = "LOGIN" THEN "gen_perms"
                               ELSE AfterAuth(r.cmd)]
    /\ req' = [req EXCEPT ![c] = r]
    /\ last' = NoLast /\ UNCHANGED <<store_vars, env_vars, loc, peer_open, sw_pc,
                   ghost_vars, match_vars>>

\* run_daemon accepts a connection; handle_client reads the request line r
\* and makes its first call on the shared state: login's user lookup for
\* LOGIN, state.authenticate(token, Some(permission)) for every other
\* command, whose else branch writes the authentication error
Accept(c, r) ==
    /\ CanAccept(c, r)
    /\ IF r.cmd = "LOGIN"
       THEN IF r.user \in DOMAIN users /\ users[r.user].password_hash = r.cred
            THEN /\ pc' = [pc EXCEPT ![c] = "gen_perms"]
                 /\ req' = [req EXCEPT ![c] = r]
                 /\ loc' = loc /\ last' = NoLast
            ELSE ReplyTo(c, r, <<"ERROR:Invalid credentials">>)
       ELSE IF authenticate(auth_tokens, r.token,
                            Some(RequiredPermission(r.cmd)), now)
            THEN /\ pc' = [pc EXCEPT ![c] = AfterAuth(r.cmd)]
                 /\ req' = [req EXCEPT ![c] = r]
                 /\ loc' = loc /\ last' = NoLast
            ELSE ReplyTo(c, r, AuthErr)
    /\ UNCHANGED <<store_vars, env_vars, peer_open, sw_pc, ghost_vars, match_vars>>

\* the admissions counted in the history variables
CountAdmission(counts, ps) ==
    [p \in Patterns |->
        IF p \in ps THEN [counts[p] EXCEPT ![now] = @ + 1] ELSE counts[p]]

\* the Signal of an EMIT request
SignalOf(r) == [name |-> r.name, timestamp |-> r.timestamp]

\* mutant: a rejected signal is appended to the history all the same
EmitRateLimit_StillStored(c) ==
    /\ pc[c] = "rate"
    /\ held["rate_limits"] = Free
    /\ LET r == check_rate_limit(rate_limits, rl_order, signal_counters,
                                 req[c].name, now)
       IN  /\ signal_counters' = r.counters
           /\ IF r.ok
              THEN /\ Goto(c, "alloc_id")
                   /\ UNCHANGED <<loc, signal_history, next_id>>
              ELSE /\ Reply(c, RateErr(req[c].name))
                   /\ next_id' = next_id + 1
                   /\ signal_history' = PushHistory(signal_history,
                         [signal |-> SignalOf(req[c]), id |-> next_id,
                          ttl |-> req[c].ttl])
    /\ UNCHANGED <<subscribers, rate_limits, users, auth_tokens, default_tokens,
                   env_vars, peer_open, sw_pc, ghost_vars, match_vars>>

\* publish: check_rate_limit, and the early return with the error that the
\* EMIT handler writes as ERROR:<message>
EmitRateLimit(c) ==
    /\ pc[c] = "rate"
    /\ held["rate_limits"] = Free
    /\ LET r == check_rate_limit(rate_limits, rl_order, signal_counters,
                                 req[c].name, now)
       IN  /\ signal_counters' = r.counters
           /\ IF r.ok
              THEN /\ Goto(c, "alloc_id")
                   /\ loc' = loc
                   /\ adm_by' = CountAdmission(adm_by,
                         IF r.rule = None THEN {} ELSE {r.rule[1]})
                   /\ adm_match' = CountAdmission(adm_match,
                         {p \in DOMAIN rate_limits : pattern_match(p, req[c].name)})
                   /\ UNCHANGED <<revoked, last_sweep>>
              ELSE /\ Reply(c, RateErr(req[c].name))
                   /\ UNCHANGED ghost_vars
    /\ UNCHANGED <<subscribers, signal_history, next_id, rate_limits, users,
                   auth_tokens, default_tokens, env_vars, peer_open, sw_pc,
                   match_vars>>

\* mutant: the id counter is read and not advanced
EmitAllocId_NoAdvance(c) ==
    /\ pc[c] = "alloc_id"
    /\ loc' = [loc EXCEPT ![c].id = next_id]
    /\ next_id' = next_id
    /\ Goto(c, "push_hist")
    /\ UNCHANGED <<subscribers, signal_history, rate_limits, signal_counters,
                   users, auth_tokens, default_tokens, env_vars, peer_open,
                   sw_pc, ghost_vars, match_vars>>

\* add_to_history: next_id.fetch_add(1), before the history lock is taken
EmitAllocId(c) ==
    /\ pc[c] = "alloc_id"
    /\ loc' = [loc EXCEPT ![c].id = next_id]
    /\ next_id' = next_id + 1
    /\ Goto(c, "push_hist")
    /\ UNCHANGED <<subscribers, signal_history, rate_limits, signal_counters,
                   users, auth_tokens, default_tokens, env_vars, peer_open,
                   sw_pc, ghost_vars, match_vars>>

\* add_to_history: under the history lock, push_back and trim
EmitPushHistory(c) ==
    /\ pc[c] = "push_hist"
    /\ signal_history' = PushHistory(signal_history,
          [signal |-> SignalOf(req[c]), id |-> loc[c].id, ttl |-> req[c].ttl])
    /\ Goto(c, "fanout_lock")
    /\ UNCHANGED <<subscribers, next_id, rate_limits, signal_counters, users,
                   auth_tokens, default_tokens, env_vars, loc, peer_open, sw_pc,
                   ghost_vars, match_vars>>

\* the orders in which a HashMap can iterate over the keys in S
IterationOrders(S) ==
    {s \in [1..Cardinality(S) -> S] : \A x \in S : \E i \in DOMAIN s : s[i] = x}

\* the senders of the matching patterns, pattern after pattern
RECURSIVE ClientsInOrder(_, _)
ClientsInOrder(subs, order) ==
    IF order = <<>> THEN <<>>
    ELSE subs[Head(order)] \o ClientsInOrder(subs, Tail(order))

MatchingPatterns(subs, signal_name) ==
    {p \in DOMAIN subs : pattern_match(p, signal_name)}

\* publish returns Ok: the registry guard is dropped and the EMIT handler
\* writes OK
PublishReturns(c) ==
    /\ held' = [held EXCEPT !["subscribers"] = Free]
    /\ Reply(c, RespOK)

\* mutant: publish walks the registry without waiting for its lock
EmitFanoutLock_NoWait(c) ==
    /\ pc[c] = "fanout_lock"
    /\ \E order \in IterationOrders(MatchingPatterns(subscribers, req[c].name)) :
         LET clients == ClientsInOrder(subscribers, order)
         IN  IF clients = <<>>
             THEN PublishReturns(c)
             ELSE /\ held' = [held EXCEPT !["subscribers"] = Some(c)]
                  /\ loc' = [loc EXCEPT ![c].todo = clients]
                  /\ Goto(c, "fanout")
    /\ UNCHANGED <<store_vars, channels, rl_order, now, peer_open, sw_pc,
                   ghost_vars, match_vars>>

\* publish: self.subscribers.lock().await; the guard lives until publish
\* returns.  loc.todo is what the two nested for loops still have to visit;
\* with no matching client publish returns at once.
EmitFanoutLock(c) ==
    /\ pc[c] = "fanout_lock"
    /\ held["subscribers"] = Free
    /\ \E order \in IterationOrders(MatchingPatterns(subscribers, req[c].name)) :
         LET clients == ClientsInOrder(subscribers, order)
         IN  IF clients = <<>>
             THEN PublishReturns(c)
             ELSE /\ held' = [held EXCEPT !["subscribers"] = Some(c)]
                  /\ loc' = [loc EXCEPT ![c].todo = clients]
                  /\ Goto(c, "fanout")
    /\ UNCHANGED <<store_vars, channels, rl_order, now, peer_open, sw_pc,
                   ghost_vars, match_vars>>

\* a task suspended in client.send(..).await: the channel is full and its
\* receiver still exists
SendBlocked(c) ==
    /\ pc[c] = "fanout"
    /\ channels[Head(loc[c].todo)].rx_open
    /\ Len(channels[Head(loc[c].todo)].queue) >= QueueCap

\* mutant: publish returns after its first send
AfterSend_StopsAtFirst(c) == PublishReturns(c)

\* the loops of publish go on after a send, or publish returns
AfterSend(c) ==
    IF Tail(loc[c].todo) = <<>>
    THEN PublishReturns(c)
    ELSE /\ loc' = [loc EXCEPT ![c].todo = Tail(@)]
         /\ last' = NoLast
         /\ UNCHANGED <<held, pc, req>>

\* mutant: a send to a dropped receiver makes publish return its error
EmitFanoutSend_FailsOnClosed(c) ==
    /\ pc[c] = "fanout"
    /\ LET ch == Head(loc[c].todo)
       IN  IF channels[ch].rx_open
           THEN /\ Len(channels[ch].queue) < QueueCap
                /\ channels' = [channels EXCEPT ![ch].queue =
                                  Append(@, SignalOf(req[c]))]
                /\ AfterSend(c)
           ELSE /\ channels' = channels
                /\ held' = [held EXCEPT !["subscribers"] = Free]
                /\ Reply(c, <<"ERROR:", "sending into a closed channel">>)
    /\ UNCHANGED <<store_vars, rl_order, now, peer_open, sw_pc, ghost_vars,
                   match_vars>>

\* publish: `let _ = client.send(signal.clone()).await` for the next client.
\* async_channel's send completes with Err when the receiver is gone, enqueues
\* when the queue has room, and otherwise suspends until one of the two holds.
EmitFanoutSend(c) ==
    /\ pc[c] = "fanout"
    /\ LET ch == Head(loc[c].todo)
       IN  IF channels[ch].rx_open
           THEN /\ Len(channels[ch].queue) < QueueCap
                /\ channels' = [channels EXCEPT ![ch].queue =
                                  Append(@, SignalOf(req[c]))]
           ELSE channels' = channels
    /\ AfterSend(c)
    /\ UNCHANGED <<store_vars, rl_order, now, peer_open, sw_pc, ghost_vars,
                   match_vars>>

\* LISTEN: async_channel::bounded(100), state.subscribe(pattern, tx) under the
\* registry lock, then the LISTENING line
ListenSubscribe(c) ==
    /\ pc[c] = "subscribe"
    /\ held["subscribers"] = Free
    /\ LET ch == Len(channels) + 1
           old == IF req[c].name \in DOMAIN subscribers
                  THEN subscribers[req[c].name] ELSE <<>>
       IN  /\ channels' = Append(channels, [queue |-> <<>>, rx_open |-> TRUE])
           /\ subscribers' = MapInsert(subscribers, req[c].name, Append(old, ch))
           /\ loc' = [loc EXCEPT ![c].rx = ch]
    /\ last' = [conn |-> c, req |-> req[c], resp |-> <<"LISTENING">>]
    /\ pc' = [pc EXCEPT ![c] = "listening"]
    /\ UNCHANGED <<signal_history, next_id, rate_limits, signal_counters, users,
                   auth_tokens, default_tokens, rl_order, held, now, req,
                   peer_open, sw_pc, ghost_vars, match_vars>>

\* mutant: recv hands out the oldest queued signal and leaves it in the queue
ListenRecv_Peek(c) ==
    /\ pc[c] = "listening"
    /\ channels[loc[c].rx].queue # <<>>
    /\ loc' = [loc EXCEPT ![c].cur = Some(Head(channels[loc[c].rx].queue))]
    /\ channels' = channels
    /\ Goto(c, "writing")
    /\ UNCHANGED <<store_vars, rl_order, held, now, peer_open, sw_pc,
                   ghost_vars, match_vars>>

\* LISTEN: rx.recv().await returns the oldest queued signal
ListenRecv(c) ==
    /\ pc[c] = "listening"
    /\ channels[loc[c].rx].queue # <<>>
    /\ loc' = [loc EXCEPT ![c].cur = Some(Head(channels[loc[c].rx].queue))]
    /\ channels' = [channels EXCEPT ![loc[c].rx].queue = Tail(@)]
    /\ Goto(c, "writing")
    /\ UNCHANGED <<store_vars, rl_order, held, now, peer_open, sw_pc,
                   ghost_vars, match_vars>>

\* LISTEN: the signal is written to the socket; a failed write ends the task
\* with `?`, which drops rx (and with it what is still queued)
ListenWrite(c) ==
    /\ pc[c] = "writing"
    /\ IF peer_open[c]
       THEN /\ last' = [conn |-> c, req |-> req[c],
                        resp |-> <<"SIGNAL", loc[c].cur[1]>>]
            /\ loc' = [loc EXCEPT ![c].cur = None]
            /\ pc' = [pc EXCEPT ![c] = "listening"]
            /\ UNCHANGED <<channels, req, peer_open>>
       ELSE /\ last' = NoLast
            /\ loc' = [loc EXCEPT ![c] = NoLoc]
            /\ pc' = [pc EXCEPT ![c] = "idle"]
            /\ req' = [req EXCEPT ![c] = NoReq]
            /\ peer_open' = [peer_open EXCEPT ![c] = TRUE]
            /\ channels' = [channels EXCEPT ![loc[c].rx] =
                              [queue |-> <<>>, rx_open |-> FALSE]]
    /\ UNCHANGED <<store_vars, rl_order, held, now, sw_pc, ghost_vars, match_vars>>

\* the client of a listening connection closes its socket
PeerClose(c) ==
    /\ pc[c] \in {"listening", "writing"}
    /\ peer_open[c]
    /\ peer_open' = [peer_open EXCEPT ![c] = FALSE]
    /\ last' = NoLast
    /\ UNCHANGED <<store_vars, env_vars, pc, req, loc, sw_pc, ghost_vars,
                   match_vars>>

\* HISTORY: get_recent_signals under the history lock, written as one line
HistoryQuery(c) ==
    /\ pc[c] = "history"
    /\ Reply(c, <<"HISTORY",
                  get_recent_signals(signal_history, req[c].name, req[c].limit)>>)
    /\ UNCHANGED <<store_vars, env_vars, peer_open, sw_pc, ghost_vars, match_vars>>

\* RATE_LIMIT: set_rate_limit under the rate_limits lock.  Replacing a rule
\* keeps the HashMap's iteration order; a new key may change it.
SetRateLimit(c) ==
    /\ pc[c] = "set_rate"
    /\ held["rate_limits"] = Free
    /\ rate_limits' = MapInsert(rate_limits, req[c].name,
          [max_signals |-> req[c].max, time_window |-> req[c].window])
    /\ IF req[c].name \in DOMAIN rate_limits
       THEN rl_order' = rl_order
       ELSE rl_order' \in IterationOrders(DOMAIN rate_limits \cup {req[c].name})
    /\ adm_by' = [adm_by EXCEPT ![req[c].name] = [t \in Times |-> 0]]
    /\ adm_match' = [adm_match EXCEPT ![req[c].name] = [t \in Times |-> 0]]
    /\ Reply(c, <<"Rate limit configured successfully">>)
    /\ UNCHANGED <<subscribers, signal_history, next_id, signal_counters, users,
                   auth_tokens, default_tokens, channels, held, now, peer_open,
                   sw_pc, revoked, last_sweep, match_vars>>

\* SHOW_RATE_LIMITS: state.rate_limits.lock().await
ShowLock(c) ==
    /\ pc[c] = "show_lock"
    /\ held["rate_limits"] = Free
    /\ held' = [held EXCEPT !["rate_limits"] = Some(c)]
    /\ Goto(c, "show_write")
    /\ UNCHANGED <<store_vars, channels, rl_order, now, loc, peer_open, sw_pc,
                   ghost_vars, match_vars>>

\* SHOW_RATE_LIMITS: the response is written while the guard is alive
ShowWrite(c) ==
    /\ pc[c] = "show_write"
    /\ Reply(c, IF DOMAIN rate_limits = {} THEN <<"No rate limits configured">>
                ELSE <<"Configured rate limits:", rate_limits>>)
    /\ held' = [held EXCEPT !["rate_limits"] = Free]
    /\ UNCHANGED <<store_vars, channels, rl_order, now, peer_open, sw_pc,
                   ghost_vars, match_vars>>

\* CREATE_TOKEN: add_user with the placeholder password and the parsed
\* permissions (HashMap::insert replaces an existing user)
CreateAddUser(c) ==
    /\ pc[c] = "add_user"
    /\ users' = MapInsert(users, req[c].user,
          [password_hash |-> "default_password", permissions |-> req[c].perms])
    /\ Goto(c, "gen_perms")
    /\ UNCHANGED <<subscribers, signal_history, next_id, rate_limits,
                   signal_counters, auth_tokens, default_tokens, env_vars, loc,
                   peer_open, sw_pc, ghost_vars, match_vars>>

\* mutant: the token a LOGIN issues never expires
ExpiresIn_LoginNoExpiry(r) == IF r.cmd = "LOGIN" THEN None ELSE r.expires_in

\* the expires_in a handler passes to generate_token
ExpiresIn(r) == IF r.cmd = "LOGIN" THEN Some(LOGIN_EXPIRES_IN) ELSE r.expires_in

\* generate_token: the random string, the clock, and the permission snapshot
\* read under the users lock
GenTokenPerms(c) ==
    /\ pc[c] = "gen_perms"
    /\ \E tok \in TokenStrs :
         loc' = [loc EXCEPT ![c].gen =
            Some([token |-> tok,
                  auth_token |-> NewAuthToken(users, req[c].user,
                                              ExpiresIn(req[c]), now)])]
    /\ Goto(c, "gen_insert")
    /\ UNCHANGED <<store_vars, env_vars, peer_open, sw_pc, ghost_vars, match_vars>>

\* generate_token: tokens.insert(token, auth_token) under the token lock, and
\* the response line of LOGIN or CREATE_TOKEN
GenTokenInsert(c) ==
    /\ pc[c] = "gen_insert"
    /\ auth_tokens' = MapInsert(auth_tokens, loc[c].gen[1].token,
                                loc[c].gen[1].auth_token)
    /\ Reply(c, IF req[c].cmd = "LOGIN" THEN <<"TOKEN:", loc[c].gen[1].token>>
                ELSE <<"New token created: ", loc[c].gen[1].token>>)
    /\ UNCHANGED <<subscribers, signal_history, next_id, rate_limits,
                   signal_counters, users, default_tokens, env_vars, peer_open,
                   sw_pc, ghost_vars, match_vars>>

\* REVOKE_TOKEN: revoke_token under the token lock
RevokeToken(c) ==
    /\ pc[c] = "revoke"
    /\ IF req[c].target \in DOMAIN auth_tokens
       THEN /\ auth_tokens' = MapRemove(auth_tokens, req[c].target)
            /\ revoked' = revoked \cup {req[c].target}
            /\ Reply(c, RespOK)
       ELSE /\ auth_tokens' = auth_tokens
            /\ revoked' = revoked
            /\ Reply(c, <<"ERROR:Token not found">>)
    /\ UNCHANGED <<subscribers, signal_history, next_id, rate_limits,
                   signal_counters, users, default_tokens, env_vars, peer_open,
                   sw_pc, rate_ghost, last_sweep, match_vars>>

\* ------------------------------------------------------------- sweeper and clock
\* start_cleanup_task: cleanup_expired.  Where timestamp + ttl of an entry
\* overflows, a build without overflow checks wraps and a build with them
\* panics in the closure of retain, which ends the sweeper task; retain
\* truncates only at its end, and with at most two entries before the panic
\* it has moved none.
SweepExpired ==
    /\ sw_pc = "expired"
    /\ \/ /\ signal_history' = cleanup_expired(signal_history, now)
          /\ sw_pc' = "counters"
          /\ last_sweep' = Some(now)
       \/ /\ \E i \in DOMAIN signal_history : AddOverflows(signal_history[i])
          /\ signal_history' = signal_history
          /\ sw_pc' = "panicked"
          /\ last_sweep' = last_sweep
    /\ UNCHANGED <<subscribers, next_id, rate_limits, signal_counters, users,
                   auth_tokens, default_tokens, env_vars, pc, req, loc,
                   peer_open, rate_ghost, revoked, match_vars>>
    /\ last' = NoLast

\* start_cleanup_task: cleanup_rate_limit_counters
SweepCounters ==
    /\ sw_pc = "counters"
    /\ held["rate_limits"] = Free
    /\ signal_counters' = cleanup_rate_limit_counters(rate_limits, signal_counters, now)
    /\ sw_pc' = "expired"
    /\ UNCHANGED <<subscribers, signal_history, next_id, rate_limits, users,
                   auth_tokens, default_tokens, env_vars, pc, req, loc,
                   peer_open, ghost_vars, match_vars>>
    /\ last' = NoLast

\* time passes
Tick ==
    /\ now < MaxTime
    /\ now' = now + 1
    /\ last' = NoLast
    /\ UNCHANGED <<store_vars, channels, rl_order, held, pc, req, loc,
                   peer_open, sw_pc, ghost_vars, match_vars>>

\* ------------------------------------------------------------- specifications
\* SpecMatch: pattern_match applied to every pair of strings over Chars of
\* length at most MaxLen
InitMatch ==
    /\ DaemonInit
    /\ m_pattern \in Strs
    /\ m_name \in Strs
    /\ m_result = None

ApplyMatch ==
    /\ m_result = None
    /\ m_result' = Some(pattern_match(m_pattern, m_name))
    /\ UNCHANGED <<store_vars, env_vars, task_vars, ghost_vars, m_pattern, m_name>>

NextMatch == ApplyMatch

SpecMatch == InitMatch /\ [][NextMatch]_vars

\* SpecBus: publish/subscribe.  Connections send EMIT and LISTEN requests and
\* listeners drain their queues, stop reading, or close.
ReqsBus ==
    {EmitReq(tok, n, 0, None) : tok \in TokenStrs, n \in SignalNames}
    \cup {ListenReq(tok, p) : tok \in TokenStrs, p \in {PatAStar, NameAB}}

NextBus ==
    \/ \E c \in Conns : \E r \in ReqsBus :
          WithinBounds(r, MaxId, MaxSubs) /\ Accept(c, r)
    \/ \E c \in Conns : EmitRateLimit(c)
    \/ \E c \in Conns : EmitAllocId(c)
    \/ \E c \in Conns : EmitPushHistory(c)
    \/ \E c \in Conns : EmitFanoutLock(c)
    \/ \E c \in Conns : EmitFanoutSend(c)
    \/ \E c \in Conns : ListenSubscribe(c)
    \/ \E c \in Conns : ListenRecv(c)
    \/ \E c \in Conns : ListenWrite(c)
    \/ \E c \in Conns : PeerClose(c)

SpecBus == Init /\ [][NextBus]_vars

\* SpecBusWide: SpecBus with one more connection
NextBusWide ==
    \/ \E c \in WideConns : \E r \in ReqsBus :
          WithinBounds(r, MaxId, MaxSubs + 1) /\ Accept(c, r)
    \/ \E c \in WideConns : EmitRateLimit(c)
    \/ \E c \in WideConns : EmitAllocId(c)
    \/ \E c \in WideConns : EmitPushHistory(c)
    \/ \E c \in WideConns : EmitFanoutLock(c)
    \/ \E c \in WideConns : EmitFanoutSend(c)
    \/ \E c \in WideConns : ListenSubscribe(c)
    \/ \E c \in WideConns : ListenRecv(c)
    \/ \E c \in WideConns : ListenWrite(c)
    \/ \E c \in WideConns : PeerClose(c)

SpecBusWide == Init /\ [][NextBusWide]_vars

\* ------------------------------------------------------------- claims
\* C1 (as claimed): an EMIT that passed authentication and the rate limiter
\* never waits on a subscriber: no task is ever suspended in the send of
\* publish because a matching subscriber's queue is full.
C1_PublishNeverBlocks == \A c \in WideConns : ~SendBlocked(c)

\* C2 (as claimed): a full queue costs only its own subscriber the signal.
\* While a fanout stands at a full queue, no other matching subscriber with
\* free queue space is still waiting for that signal, and no other connection
\* is waiting for the registry lock that the fanout holds.
C2_FullQueueAffectsOnlyItsSubscriber ==
    \A c \in WideConns :
        SendBlocked(c) =>
            /\ \A i \in 2..Len(loc[c].todo) :
                 LET ch == channels[loc[c].todo[i]]
                 IN  ~(ch.rx_open /\ Len(ch.queue) < QueueCap)
            /\ \A d \in WideConns \ {c} : pc[d] \notin {"fanout_lock", "subscribe"}

\* ------------------------------------------------------------- more specifications
\* SpecHist: the history.  Connections emit, with and without a ttl; the
\* sweeper runs and time passes.  Nobody listens, so every fanout finds no
\* client.
ReqsHist ==
    {EmitReq(InitialToken, NameA, 0, ttl) : ttl \in {None, Some(1)}}

NextHist ==
    \/ \E c \in Conns : \E r \in ReqsHist :
          WithinBounds(r, MaxId + 1, MaxSubs) /\ Accept(c, r)
    \/ \E c \in Conns : EmitRateLimit(c)
    \/ \E c \in Conns : EmitAllocId(c)
    \/ \E c \in Conns : EmitPushHistory(c)
    \/ \E c \in Conns : EmitFanoutLock(c)
    \/ SweepExpired
    \/ SweepCounters
    \/ Tick

SpecHist == Init /\ [][NextHist]_vars

\* SpecRate: the rate limiter.  Connections emit and configure overlapping
\* rules; the sweeper runs and time passes.
ReqsRate ==
    {EmitReq(InitialToken, n, 0, None) : n \in SignalNames}
    \cup {RateLimitReq(InitialToken, p, 1, w) : p \in {NameA, PatStar}, w \in {0, 1}}

NextRate ==
    \/ \E c \in Conns : \E r \in ReqsRate :
          WithinBounds(r, MaxId, MaxSubs) /\ Accept(c, r)
    \/ \E c \in Conns : EmitRateLimit(c)
    \/ \E c \in Conns : EmitAllocId(c)
    \/ \E c \in Conns : EmitPushHistory(c)
    \/ \E c \in Conns : EmitFanoutLock(c)
    \/ \E c \in Conns : SetRateLimit(c)
    \/ SweepExpired
    \/ SweepCounters
    \/ Tick

SpecRate == Init /\ [][NextRate]_vars

\* SpecAuth: users and tokens.  Connections log in, create tokens with chosen
\* permissions that expire, and revoke tokens; time passes.
ReqsAuth ==
    {LoginReq(u, "admin123") : u \in UserIds}
    \cup {CreateTokenReq(InitialToken, "bob", ps, Some(0)) :
            ps \in {{"Read"}, {"Admin"}}}
    \cup {RevokeReq(InitialToken, target) : target \in TokenStrs}

NextAuth ==
    \/ \E c \in Conns : \E r \in ReqsAuth : Accept(c, r)
    \/ \E c \in Conns : CreateAddUser(c)
    \/ \E c \in Conns : GenTokenPerms(c)
    \/ \E c \in Conns : GenTokenInsert(c)
    \/ \E c \in Conns : RevokeToken(c)
    \/ Tick

SpecAuth == Init /\ [][NextAuth]_vars

\* SpecCmds: the seven commands that present a token, on two connections;
\* time passes.
ReqsCmds ==
    {EmitReq(tok, NameAB, 0, None) : tok \in TokenStrs}
    \cup {ListenReq(tok, PatAStar) : tok \in TokenStrs}
    \cup {HistoryReq(tok, PatStar, 1) : tok \in TokenStrs}
    \cup {RateLimitReq(tok, PatStar, 1, 1) : tok \in TokenStrs}
    \cup {ShowReq(tok) : tok \in TokenStrs}
    \cup {CreateTokenReq(tok, "bob", {}, Some(0)) : tok \in TokenStrs}
    \cup {RevokeReq(tok, "t2") : tok \in TokenStrs}

NextCmds ==
    \/ \E c \in Conns : \E r \in ReqsCmds :
          WithinBounds(r, MaxId, MaxSubs) /\ Accept(c, r)
    \/ \E c \in Conns : EmitRateLimit(c)
    \/ \E c \in Conns : EmitAllocId(c)
    \/ \E c \in Conns : EmitPushHistory(c)
    \/ \E c \in Conns : EmitFanoutLock(c)
    \/ \E c \in Conns : EmitFanoutSend(c)
    \/ \E c \in Conns : ListenSubscribe(c)
    \/ \E c \in Conns : ListenRecv(c)
    \/ \E c \in Conns : ListenWrite(c)
    \/ \E c \in Conns : PeerClose(c)
    \/ \E c \in Conns : HistoryQuery(c)
    \/ \E c \in Conns : SetRateLimit(c)
    \/ \E c \in Conns : ShowLock(c)
    \/ \E c \in Conns : ShowWrite(c)
    \/ \E c \in Conns : CreateAddUser(c)
    \/ \E c \in Conns : GenTokenPerms(c)
    \/ \E c \in Conns : GenTokenInsert(c)
    \/ \E c \in Conns : RevokeToken(c)
    \/ Tick

SpecCmds == Init /\ [][NextCmds]_vars

\* C3: the history never holds more than max_history_size entries, whatever
\* the emits of concurrent connections and the sweeps; and a push puts the new
\* entry at the tail, dropping the head when the history was full.
C3_HistoryBounded ==
    /\ [](Len(signal_history) <= max_history_size)
    /\ [][\A c \in WideConns :
            (pc[c] = "push_hist" /\ pc'[c] # "push_hist") =>
                LET ps == [signal |-> SignalOf(req[c]), id |-> loc[c].id,
                           ttl |-> req[c].ttl]
                IN  signal_history' =
                        IF Len(signal_history) < max_history_size
                        THEN Append(signal_history, ps)
                        ELSE Append(Tail(signal_history), ps)]_vars

\* C3 witness: more emits than the history holds have all been pushed before
\* anything could expire, and the history is full: its head was evicted.
C3_Witness_HeadEvicted ==
    /\ now = 0
    /\ next_id > max_history_size + 1
    /\ \A c \in WideConns : pc[c] = "idle"
    /\ Len(signal_history) = max_history_size

\* admissions counted in `counts` at the times t1..t2
RECURSIVE WindowSum(_, _, _)
WindowSum(counts, t1, t2) ==
    IF t1 > t2 THEN 0 ELSE counts[t1] + WindowSum(counts, t1 + 1, t2)

\* C4 (as claimed): for every configured rule, the admitted signals whose
\* name matches the rule's pattern, within any interval of `window` seconds,
\* number at most `max`.
C4_MatchingAdmissionsWithinMax ==
    \A p \in DOMAIN rate_limits : \A t1 \in Times, t2 \in Times :
        (t1 <= t2 /\ t2 - t1 <= rate_limits[p].time_window) =>
            WindowSum(adm_match[p], t1, t2) <= rate_limits[p].max_signals

\* C4 (amended): for every configured rule, the signals admitted under that
\* rule (it was the first matching rule in the map's iteration order) since
\* the rule was last set, within any interval of `window` seconds, number at
\* most `max`.
C4_AdmissionsUnderRuleWithinMax ==
    \A p \in DOMAIN rate_limits : \A t1 \in Times, t2 \in Times :
        (t1 <= t2 /\ t2 - t1 <= rate_limits[p].time_window) =>
            WindowSum(adm_by[p], t1, t2) <= rate_limits[p].max_signals

\* C4 witness: two overlapping rules are configured and each has admitted a
\* signal.
C4_Witness_OverlappingRulesAdmit ==
    /\ DOMAIN rate_limits = {NameA, PatStar}
    /\ \E t \in Times : adm_by[NameA][t] > 0
    /\ \E t \in Times : adm_by[PatStar][t] > 0

\* C5: when the rate limiter rejects an EMIT, the handler answers
\* ERROR:Rate limit exceeded for signal: <name> and returns; no id is
\* consumed, the history is unchanged and nothing is enqueued to a subscriber.
C5_RejectedEmitLeavesNoTrace ==
    [][\A c \in WideConns :
          (/\ pc[c] = "rate"
           /\ pc'[c] # "rate"
           /\ ~check_rate_limit(rate_limits, rl_order, signal_counters,
                                req[c].name, now).ok) =>
              /\ last' = [conn |-> c, req |-> req[c],
                          resp |-> RateErr(req[c].name)]
              /\ pc'[c] = "idle"
              /\ next_id' = next_id
              /\ signal_history' = signal_history
              /\ channels' = channels
              /\ subscribers' = subscribers]_vars

\* C5 witness: an EMIT was just rejected while a live subscriber with room in
\* its queue was registered under a pattern that matches the signal.
C5_Witness_RejectedWithSubscriber ==
    /\ last.req.cmd = "EMIT"
    /\ last.resp = RateErr(last.req.name)
    /\ \E p \in DOMAIN subscribers :
          /\ pattern_match(p, last.req.name)
          /\ \E i \in DOMAIN subscribers[p] :
                LET ch == channels[subscribers[p][i]]
                IN  ch.rx_open /\ Len(ch.queue) < QueueCap

\* C6 (as claimed): a token is accepted exactly when it is in the token store
\* and has no expiry or an expiry >= now; and a token that was valid and has
\* been revoked since is not valid.
C6_ValidIffStoredUnexpiredNotRevoked ==
    \A tok \in TokenStrs :
        authenticate(auth_tokens, tok, None, now) <=>
            /\ tok \notin revoked
            /\ tok \in DOMAIN auth_tokens
            /\ \/ auth_tokens[tok].expires_at = None
               \/ auth_tokens[tok].expires_at[1] >= now

\* C7 (as claimed): once REVOKE_TOKEN has answered OK for a token, every
\* later request that presents it fails authentication.
C7_RevokedTokenStaysRejected ==
    \A tok \in revoked :
        \A cmd \in {"EMIT", "LISTEN", "HISTORY", "RATE_LIMIT",
                    "SHOW_RATE_LIMITS", "CREATE_TOKEN", "REVOKE_TOKEN"} :
            ~authenticate(auth_tokens, tok, Some(RequiredPermission(cmd)), now)

\* C8: authenticate returns true iff the token exists, is not expired, and no
\* permission is required or the token holds the required permission or Admin.
C8_AuthenticateDecision ==
    \A tok \in TokenStrs :
        \A required \in {None} \cup {Some(p) : p \in Permissions} :
            authenticate(auth_tokens, tok, required, now) <=>
                /\ tok \in DOMAIN auth_tokens
                /\ \/ auth_tokens[tok].expires_at = None
                   \/ auth_tokens[tok].expires_at[1] >= now
                /\ \/ required = None
                   \/ required[1] \in auth_tokens[tok].permissions
                   \/ "Admin" \in auth_tokens[tok].permissions

\* C8 witness: at the instant of its expiry a token that holds Admin alone is
\* authorized for Write, while another token is stored that has expired.
C8_Witness_AdminOnlyToken ==
    /\ \E tok \in DOMAIN auth_tokens :
          /\ auth_tokens[tok].permissions = {"Admin"}
          /\ auth_tokens[tok].expires_at = Some(now)
          /\ authenticate(auth_tokens, tok, Some("Write"), now)
    /\ \E tok \in DOMAIN auth_tokens :
          /\ auth_tokens[tok].expires_at # None
          /\ auth_tokens[tok].expires_at[1] < now

\* the request r has just been read from connection c
JustRead(c, r) ==
    /\ pc[c] = "idle"
    /\ \/ pc'[c] # "idle" /\ req'[c] = r
       \/ last'.conn = c /\ last'.req = r

\* C9: a request of one of the seven commands whose token is missing, expired
\* or lacks the command's permission (and Admin) is answered with the
\* authentication error, and no part of the daemon state changes.
C9_DeniedRequestChangesNothing ==
    [][\A c \in WideConns : \A r \in ReqsCmds :
          (/\ JustRead(c, r)
           /\ \/ r.token \notin DOMAIN auth_tokens
              \/ /\ auth_tokens[r.token].expires_at # None
                 /\ auth_tokens[r.token].expires_at[1] < now
              \/ LET need == CASE r.cmd = "EMIT" -> "Write"
                               [] r.cmd = "LISTEN" -> "Read"
                               [] r.cmd = "HISTORY" -> "History"
                               [] r.cmd = "RATE_LIMIT" -> "RateLimit"
                               [] r.cmd = "SHOW_RATE_LIMITS" -> "Read"
                               [] r.cmd = "CREATE_TOKEN" -> "Admin"
                               [] r.cmd = "REVOKE_TOKEN" -> "Admin"
                 IN  auth_tokens[r.token].permissions \cap {need, "Admin"} = {}) =>
              /\ last' = [conn |-> c, req |-> r, resp |-> AuthErr]
              /\ pc'[c] = "idle"
              /\ store_vars' = store_vars
              /\ channels' = channels]_vars

\* C9 witness: a request was just denied for a token that is in the store and
\* has not expired, so for its permissions alone, while history, registry,
\* rules and counters all hold something.
C9_Witness_DeniedForPermission ==
    /\ last.resp = AuthErr
    /\ last.req.token \in DOMAIN auth_tokens
    /\ auth_tokens[last.req.token].expires_at = Some(now)
    /\ signal_history # <<>>
    /\ DOMAIN subscribers # {}
    /\ DOMAIN rate_limits # {}
    /\ DOMAIN signal_counters # {}

\* the matcher as section 4.1 of the specification states it: the ':' is
\* included in the prefix
MatchesSpec(pattern, signal_name) ==
    IF pattern = <<"*">> THEN TRUE
    ELSE IF ends_with(pattern, <<":", "*">>)
    THEN starts_with(signal_name, SubSeq(pattern, 1, Len(pattern) - 1))
    ELSE pattern = signal_name

\* C10 (as claimed): pattern_match returns what section 4.1 states, where the
\* prefix of a ":*" pattern includes the ':'.
C10_MatcherAsSpecified ==
    m_result # None => m_result[1] = MatchesSpec(m_pattern, m_name)

\* ------------------------------------------------------------- history queries
\* SpecQuery: connections emit and query the history
ReqsQuery ==
    {EmitReq(InitialToken, n, 0, None) : n \in SignalNames}
    \cup {HistoryReq(InitialToken, p, l) : p \in {PatStar, NameA}, l \in {1, 2}}

NextQuery ==
    \/ \E c \in Conns : \E r \in ReqsQuery :
          WithinBounds(r, MaxId, MaxSubs) /\ Accept(c, r)
    \/ \E c \in Conns : EmitRateLimit(c)
    \/ \E c \in Conns : EmitAllocId(c)
    \/ \E c \in Conns : EmitPushHistory(c)
    \/ \E c \in Conns : EmitFanoutLock(c)
    \/ \E c \in Conns : HistoryQuery(c)

SpecQuery == Init /\ [][NextQuery]_vars

\* C11 (as claimed): the entries a HISTORY query returns are newest first
\* with strictly decreasing ids, also when the emits came from concurrent
\* connections.
C11_RecentIdsStrictlyDecreasing ==
    (last.req.cmd = "HISTORY" /\ last.resp # AuthErr) =>
        LET returned == last.resp[2]
        IN  \A i \in 1..(Len(returned) - 1) : returned[i].id > returned[i + 1].id

\* the ids that exist: of the history entries, and of the emits that have
\* fetched an id and not yet pushed their entry
HistoryIds == {signal_history[i].id : i \in DOMAIN signal_history}
FetchedIds == {loc[c].id : c \in {d \in WideConns : pc[d] = "push_hist"}}

\* C12: every fetch returns an id larger than all ids fetched before, and no
\* two persistent signals carry the same id, whatever the interleaving of
\* the emits.
C12_IdsIncreaseAndAreUnique ==
    /\ [](/\ \A i \in DOMAIN signal_history, j \in DOMAIN signal_history :
               i # j => signal_history[i].id # signal_history[j].id
          /\ \A c \in WideConns, d \in WideConns :
               (c # d /\ pc[c] = "push_hist" /\ pc[d] = "push_hist") =>
                   loc[c].id # loc[d].id
          /\ HistoryIds \cap FetchedIds = {}
          /\ \A id \in HistoryIds \cup FetchedIds : id < next_id)
    /\ [][\A c \in WideConns :
            (pc[c] = "alloc_id" /\ pc'[c] = "push_hist") =>
                /\ loc'[c].id = next_id
                /\ next_id' > loc'[c].id]_vars

\* C12 witness: two emits pushed their entries in the opposite order of
\* their id fetches.
C12_Witness_PushedOutOfFetchOrder ==
    /\ Len(signal_history) = 2
    /\ signal_history[1].id > signal_history[2].id

\* ------------------------------------------------------------- delivery
\* C13 (as claimed): a signal is never enqueued to a subscription whose
\* pattern does not match its name (matching as section 4.1 states it).
C13_NoDeliveryToNonMatching ==
    \A p \in DOMAIN subscribers : \A i \in DOMAIN subscribers[p] :
        LET queue == channels[subscribers[p][i]].queue
        IN  \A k \in DOMAIN queue : MatchesSpec(p, queue[k].name)

C15_NoSenderOfClosedConnection ==
    (\A c \in WideConns : pc[c] = "idle") =>
        \A p \in DOMAIN subscribers : \A i \in DOMAIN subscribers[p] :
            channels[subscribers[p][i]].rx_open

\* ------------------------------------------------------------- the sweep
\* SpecSweep: connections emit signals with timestamps and ttls of their
\* choice, up to the largest u64; the sweeper runs and time passes.
ReqsSweep ==
    {EmitReq(InitialToken, NameA, ts, ttl) :
        ts \in {0, 1}, ttl \in {None, Some(0), Some(1), Some(U64Mod - 1)}}

NextSweep ==
    \/ \E c \in Conns : \E r \in ReqsSweep :
          WithinBounds(r, MaxId, MaxSubs) /\ Accept(c, r)
    \/ \E c \in Conns : EmitRateLimit(c)
    \/ \E c \in Conns : EmitAllocId(c)
    \/ \E c \in Conns : EmitPushHistory(c)
    \/ \E c \in Conns : EmitFanoutLock(c)
    \/ SweepExpired
    \/ SweepCounters
    \/ Tick

SpecSweep == Init /\ [][NextSweep]_vars

\* C16 (as claimed): a sweep that runs to its end keeps exactly the entries
\* whose ttl is absent or whose timestamp + ttl > now, in their order and with
\* their ids.
C16_SweepKeepsExactlyUnexpired ==
    [][(sw_pc = "expired" /\ sw_pc' = "counters") =>
          signal_history' =
              SelectSeq(signal_history,
                        LAMBDA ps : \/ ps.ttl = None
                                    \/ ps.signal.timestamp + ps.ttl[1] > now)]_vars

\* ------------------------------------------------------------- request lines
\* A request line is its command keyword and the text after "KEYWORD|"; a
\* text is the sequence of its pieces between the '|' characters, so that
\* <<"t1", "a:*">> is the text t1|a:*.
Line(cmd, rest) == [cmd |-> cmd, rest |-> rest]

\* the string a text stands for
RECURSIVE join(_)
join(text) ==
    IF Len(text) = 0 THEN ""
    ELSE IF Len(text) = 1 THEN text[1]
    ELSE text[1] \o "|" \o join(Tail(text))

\* str::splitn(n, '|'): at most n parts, the last one taking the rest of the
\* text with its '|' characters
splitn(n, text) ==
    IF Len(text) <= n
    THEN [i \in 1..Len(text) |-> <<text[i]>>]
    ELSE [i \in 1..n |-> IF i < n THEN <<text[i]>>
                         ELSE SubSeq(text, n, Len(text))]

\* str::parse::<u64>() and ::<u32>(), .ok(): the decimal numerals
Numerals == <<"0", "1", "2", "3">>
parse(text) ==
    IF Len(text) = 1 /\ \E i \in DOMAIN Numerals : Numerals[i] = text[1]
    THEN Some((CHOOSE i \in DOMAIN Numerals : Numerals[i] = text[1]) - 1)
    ELSE None

\* the JSON texts of the request lines: a signal named a:b, and a signal
\* named a|b, whose text has a '|' and so two pieces
JsonAB == <<"{\"name\":\"a:b\",\"timestamp\":0}">>
JsonPipe == <<"{\"name\":\"a", "b\",\"timestamp\":0}">>
NamePipe == <<"a", "|", "b">>

\* serde_json::from_str::<Signal>(), .ok(): only a whole JSON text is a Signal
from_str(text) ==
    CASE text = JsonAB -> Some([name |-> NameAB, timestamp |-> 0])
      [] text = JsonPipe -> Some([name |-> NamePipe, timestamp |-> 0])
      [] OTHER -> None

\* the characters of a signal name or pattern given as a string
to_chars(s) ==
    CASE s = "a" -> NameA
      [] s = "a:b" -> NameAB
      [] s = "a:*" -> PatAStar
      [] s = "*" -> PatStar
      [] OTHER -> <<s>>

\* permissions_str.split(',') and the match on each name; unknown names are
\* dropped
parse_permissions(s) ==
    CASE s = "Read" -> {"Read"}
      [] s = "Write" -> {"Write"}
      [] s = "History" -> {"History"}
      [] s = "RateLimit" -> {"RateLimit"}
      [] s = "Admin" -> {"Admin"}
      [] s = "Read,Write" -> {"Read", "Write"}
      [] OTHER -> {}

\* what handle_client makes of a line before its first call on the state:
\* a request, a line written at once, a signal text still to be parsed after
\* authenticate, the end of the task without a line (Ok(()) of a branch that
\* writes nothing), or an Err returned by `?`
Request(r) == [kind |-> "request", req |-> r]
Respond(resp) == [kind |-> "respond", resp |-> resp]
BadSignal(tok) == [kind |-> "bad_signal", token |-> tok]
Silent == [kind |-> "silent"]
Failed == [kind |-> "failed"]
FormatErr(cmd) == <<"ERROR:Invalid " \o cmd \o " format">>
SignalErr == <<"ERROR:", "serde_json::Error">>

ParseLine(line) ==
    CASE line.cmd = "LOGIN" ->
            LET parts == splitn(2, line.rest)
            IN  IF Len(parts) = 2
                THEN Request(LoginReq(join(parts[1]), join(parts[2])))
                ELSE Silent
      [] line.cmd = "CREATE_TOKEN" ->
            LET parts == splitn(4, line.rest)
            IN  IF Len(parts) >= 3
                THEN Request(CreateTokenReq(join(parts[1]), join(parts[2]),
                        parse_permissions(join(parts[3])),
                        IF Len(parts) >= 4 THEN parse(parts[4]) ELSE None))
                ELSE Respond(FormatErr("CREATE_TOKEN"))
      [] line.cmd = "EMIT" ->
            LET parts == splitn(3, line.rest)
            IN  IF Len(parts) >= 2
                THEN LET signal == from_str(parts[2])
                         ttl == IF Len(parts) >= 3 THEN parse(parts[3])
                                ELSE None
                     IN  IF signal # None
                         THEN Request(EmitReq(join(parts[1]), signal[1].name,
                                              signal[1].timestamp, ttl))
                         ELSE BadSignal(join(parts[1]))
                ELSE Respond(FormatErr("EMIT"))
      [] line.cmd = "LISTEN" ->
            LET parts == splitn(2, line.rest)
            IN  IF Len(parts) = 2
                THEN Request(ListenReq(join(parts[1]),
                                       to_chars(join(parts[2]))))
                ELSE Respond(FormatErr("LISTEN"))
      [] line.cmd = "HISTORY" ->
            LET parts == splitn(3, line.rest)
            IN  IF Len(parts) = 3
                THEN Request(HistoryReq(join(parts[1]),
                        to_chars(join(parts[2])),
                        IF parse(parts[3]) # None THEN parse(parts[3])[1]
                        ELSE 10))
                ELSE Respond(FormatErr("HISTORY"))
      [] line.cmd = "RATE_LIMIT" ->
            LET parts == splitn(4, line.rest)
            IN  IF Len(parts) = 4
                THEN IF parse(parts[3]) = None \/ parse(parts[4]) = None
                     THEN Failed
                     ELSE Request(RateLimitReq(join(parts[1]),
                             to_chars(join(parts[2])), parse(parts[3])[1],
                             parse(parts[4])[1]))
                ELSE Respond(<<"ERROR:Invalid RATE_LIMIT command format">>)
      [] line.cmd = "SHOW_RATE_LIMITS" -> Request(ShowReq(join(line.rest)))
      [] line.cmd = "REVOKE_TOKEN" ->
            LET parts == splitn(2, line.rest)
            IN  IF Len(parts) = 2
                THEN Request(RevokeReq(join(parts[1]), join(parts[2])))
                ELSE Respond(FormatErr("REVOKE_TOKEN"))
      [] OTHER -> Silent

\* the request r, remembering the line it was read from
WithLine(r, line) ==
    [f \in DOMAIN r \cup {"line"} |-> IF f = "line" THEN line ELSE r[f]]

\* the line of a request, or of a response: no line for the requests that
\* were not read from one
LineOf(r) == IF "line" \in DOMAIN r THEN Some(r.line) ELSE None

\* the task of connection c ends having written nothing
EndSilently(c, line) ==
    /\ pc' = [pc EXCEPT ![c] = "idle"]
    /\ req' = [req EXCEPT ![c] = NoReq]
    /\ loc' = [loc EXCEPT ![c] = NoLoc]
    /\ last' = [conn |-> c, req |-> WithLine([cmd |-> line.cmd], line),
                resp |-> <<>>]

\* mutant: an EMIT whose signal text is not a Signal takes an id all the same
AcceptLine_BadSignalTakesId(c, line) ==
    LET o == ParseLine(line)
    IN  CASE o.kind = "request" -> Accept(c, WithLine(o.req, line))
          [] o.kind = "bad_signal" ->
                /\ CanAccept(c, line)
                /\ ReplyTo(c, WithLine([cmd |-> line.cmd], line),
                           IF authenticate(auth_tokens, o.token, Some("Write"),
                                           now)
                           THEN SignalErr ELSE AuthErr)
                /\ next_id' = next_id + 1
                /\ UNCHANGED <<subscribers, signal_history, rate_limits,
                               signal_counters, users, auth_tokens,
                               default_tokens, env_vars, peer_open, sw_pc,
                               ghost_vars, match_vars>>
          [] o.kind = "respond" ->
                /\ CanAccept(c, line)
                /\ ReplyTo(c, WithLine([cmd |-> line.cmd], line), o.resp)
                /\ UNCHANGED <<store_vars, env_vars, peer_open, sw_pc,
                               ghost_vars, match_vars>>
          [] OTHER ->
                /\ CanAccept(c, line)
                /\ EndSilently(c, line)
                /\ UNCHANGED <<store_vars, env_vars, peer_open, sw_pc,
                               ghost_vars, match_vars>>

\* run_daemon accepts a connection; handle_client reads and trims the line,
\* splits it, and goes as far as the first call on the shared state
AcceptLine(c, line) ==
    LET o == ParseLine(line)
    IN  CASE o.kind = "request" -> Accept(c, WithLine(o.req, line))
          [] o.kind = "bad_signal" ->
                /\ CanAccept(c, line)
                /\ ReplyTo(c, WithLine([cmd |-> line.cmd], line),
                           IF authenticate(auth_tokens, o.token, Some("Write"),
                                           now)
                           THEN SignalErr ELSE AuthErr)
                /\ UNCHANGED <<store_vars, env_vars, peer_open, sw_pc,
                               ghost_vars, match_vars>>
          [] o.kind = "respond" ->
                /\ CanAccept(c, line)
                /\ ReplyTo(c, WithLine([cmd |-> line.cmd], line), o.resp)
                /\ UNCHANGED <<store_vars, env_vars, peer_open, sw_pc,
                               ghost_vars, match_vars>>
          [] OTHER ->
                /\ CanAccept(c, line)
                /\ EndSilently(c, line)
                /\ UNCHANGED <<store_vars, env_vars, peer_open, sw_pc,
                               ghost_vars, match_vars>>

\* SpecParse: connections send well-formed and malformed lines of every
\* command; the requests read from them are served.
LinesEmit ==
    {Line("EMIT", rest) :
        rest \in {<<"t1", JsonAB[1]>>, <<"t1", JsonAB[1], "1">>,
                  <<"t1", JsonAB[1], "x">>,
                  <<"t1", "{bad">>, <<"t1", "{bad", "1">>, <<"t2", "{bad">>,
                  <<"t1", JsonPipe[1], JsonPipe[2]>>,
                  <<"t1", JsonPipe[1], JsonPipe[2], "1">>,
                  <<"t1">>}}
LinesListen ==
    {Line("LISTEN", rest) :
        rest \in {<<"t1", "a:*">>, <<"t1">>, <<"t1", "a:*", "x">>}}
LinesHistory ==
    {Line("HISTORY", rest) :
        rest \in {<<"t1", "*", "1">>, <<"t1", "*", "x">>, <<"t1", "*">>,
                  <<"t1", "*", "1", "x">>}}
LinesRateLimit ==
    {Line("RATE_LIMIT", rest) :
        rest \in {<<"t1", "*", "1", "1">>, <<"t1", "*", "x", "1">>,
                  <<"t1", "*", "1", "x">>, <<"t2", "*", "x", "1">>,
                  <<"t1", "*", "1">>, <<"t1", "*", "1", "1", "x">>}}
LinesAuth ==
    {Line("LOGIN", <<"admin">>), Line("LOGIN", <<"admin", "admin123", "x">>),
     Line("CREATE_TOKEN", <<"t1", "bob">>), Line("REVOKE_TOKEN", <<"t1">>)}
LinesParse ==
    LinesEmit \cup LinesListen \cup LinesHistory \cup LinesRateLimit
    \cup LinesAuth

LineWithinBounds(line) ==
    ParseLine(line).kind = "request" =>
        WithinBounds(ParseLine(line).req, MaxId, MaxSubs)

NextParse ==
    \/ \E c \in Conns : \E line \in LinesParse :
          LineWithinBounds(line) /\ AcceptLine(c, line)
    \/ \E c \in Conns : EmitRateLimit(c)
    \/ \E c \in Conns : EmitAllocId(c)
    \/ \E c \in Conns : EmitPushHistory(c)
    \/ \E c \in Conns : EmitFanoutLock(c)
    \/ \E c \in Conns : EmitFanoutSend(c)
    \/ \E c \in Conns : ListenSubscribe(c)
    \/ \E c \in Conns : ListenRecv(c)
    \/ \E c \in Conns : ListenWrite(c)
    \/ \E c \in Conns : PeerClose(c)
    \/ \E c \in Conns : HistoryQuery(c)
    \/ \E c \in Conns : SetRateLimit(c)

SpecParse == Init /\ [][NextParse]_vars

\* the texts that can be the signal field of an EMIT line: all that follows
\* the token, or all but a last piece read as <ttl_s>
SignalFields(line) ==
    IF Len(line.rest) < 2 THEN {}
    ELSE {SubSeq(line.rest, 2, Len(line.rest))}
         \cup (IF Len(line.rest) >= 3
               THEN {SubSeq(line.rest, 2, Len(line.rest) - 1)} ELSE {})

\* connection c reads the line in this step
ReadsLine(c, line) ==
    /\ pc[c] = "idle"
    /\ \/ last'.conn = c /\ LineOf(last'.req) = Some(line)
       \/ pc'[c] # "idle" /\ LineOf(req'[c]) = Some(line)

\* C17: an EMIT line that presents a token with the Write permission and
\* whose signal field is not the JSON of a Signal is answered with
\* ERROR:<parse message>, and the history, next_id, the rate counters and the
\* subscribers' queues stay as they were.
C17_InvalidSignalAnsweredAndIgnored ==
    [][\A c \in Conns : \A line \in LinesEmit :
          (/\ SignalFields(line) # {}
           /\ \A f \in SignalFields(line) : from_str(f) = None
           /\ authenticate(auth_tokens, line.rest[1], Some("Write"), now)
           /\ ReadsLine(c, line))
          => /\ last'.conn = c
             /\ last'.resp = SignalErr
             /\ UNCHANGED <<signal_history, next_id, signal_counters,
                            channels>>]_vars

\* an invalid signal was just answered while a subscriber was listening and
\* the history held a signal
C17_Witness_InvalidSignalWithSubscriber ==
    /\ last.resp = SignalErr
    /\ Len(channels) > 0
    /\ Len(signal_history) > 0

\* the number of fields after the keyword that each command's wire form has
FieldCounts(cmd) ==
    CASE cmd = "LOGIN" -> {2}
      [] cmd = "CREATE_TOKEN" -> {3, 4}
      [] cmd = "REVOKE_TOKEN" -> {2}
      [] cmd = "EMIT" -> {2, 3}
      [] cmd = "LISTEN" -> {2}
      [] cmd = "HISTORY" -> {3}
      [] cmd = "RATE_LIMIT" -> {4}

\* a line with the wrong number of fields; the pieces of an EMIT line past
\* the token may belong to one JSON text, so only its lower bound is counted
WrongFieldCount(line) ==
    IF line.cmd = "EMIT" THEN Len(line.rest) < 2
    ELSE Len(line.rest) \notin FieldCounts(line.cmd)

\* C18 (as claimed): no line with the wrong number of fields is served as a
\* request, and each is answered with exactly ERROR:Invalid <COMMAND> format,
\* <COMMAND> being its keyword.
C18_WrongFieldCountAnswered ==
    /\ \A c \in Conns :
          (pc[c] # "idle" /\ LineOf(req[c]) # None)
              => ~WrongFieldCount(req[c].line)
    /\ (last.conn \in Conns /\ LineOf(last.req) # None
        /\ WrongFieldCount(last.req.line))
           => last.resp = <<"ERROR:Invalid " \o last.req.line.cmd \o " format">>

\* the response lines that begin with ERROR:
IsErrorLine(resp) ==
    /\ resp # <<>>
    /\ resp[1] \in {"ERROR:", AuthErr[1], RateErr(NameA)[1],
                    "ERROR:Invalid credentials", "ERROR:Token not found",
                    "ERROR:Invalid RATE_LIMIT command format"}
                   \cup {FormatErr(cmd)[1] :
                           cmd \in {"LOGIN", "CREATE_TOKEN", "REVOKE_TOKEN",
                                    "EMIT", "LISTEN", "HISTORY", "RATE_LIMIT"}}

\* C19 (as claimed): a RATE_LIMIT line of four fields whose <max> or <per_s>
\* is not a number is not served and is answered with an ERROR: line; a
\* HISTORY line with an unparsable <limit> is served with limit 10; an EMIT
\* line with an absent or unparsable <ttl_s> is published with no TTL.
C19_NumericFieldsHandled ==
    /\ \A c \in Conns :
          LET line == IF LineOf(req[c]) # None THEN req[c].line
                      ELSE Line("NONE", <<>>)
          IN  /\ (line.cmd = "RATE_LIMIT" /\ Len(line.rest) = 4)
                    => /\ parse(<<line.rest[3]>>) # None
                       /\ parse(<<line.rest[4]>>) # None
              /\ (line.cmd = "HISTORY" /\ Len(line.rest) = 3
                  /\ parse(<<line.rest[3]>>) = None)
                    => req[c].limit = 10
              /\ (line.cmd = "EMIT" /\ line.rest[2] = JsonAB[1]
                  /\ (Len(line.rest) = 2 \/ parse(<<line.rest[3]>>) = None))
                    => req[c].ttl = None
    /\ (/\ last.conn \in Conns /\ LineOf(last.req) # None
        /\ last.req.line.cmd = "RATE_LIMIT"
        /\ Len(last.req.line.rest) = 4
        /\ \/ parse(<<last.req.line.rest[3]>>) = None
           \/ parse(<<last.req.line.rest[4]>>) = None)
           => IsErrorLine(last.resp)

\* C20 (as claimed): an EMIT line whose signal field is the JSON of a Signal
\* with a '|' inside it, followed or not by a <ttl_s> field, is never
\* answered with a parse error.
C20_PipeInJsonAccepted ==
    \A line \in LinesEmit :
        (/\ last.conn \in Conns
         /\ LineOf(last.req) = Some(line)
         /\ \E f \in SignalFields(line) : Len(f) >= 2 /\ from_str(f) # None)
        => last.resp # SignalErr

\* SpecLogin: connections log in with right and wrong credentials while an
\* admin creates tokens for new and for existing users; time passes.
ReqsLogin ==
    {LoginReq(u, cr) : u \in UserIds, cr \in {"admin123", "default_password"}}
    \cup {CreateTokenReq(InitialToken, u, ps, None) :
            u \in UserIds, ps \in {{"Read"}, {"Write"}}}

NextLogin ==
    \/ \E c \in Conns : \E r \in ReqsLogin : Accept(c, r)
    \/ \E c \in Conns : CreateAddUser(c)
    \/ \E c \in Conns : GenTokenPerms(c)
    \/ \E c \in Conns : GenTokenInsert(c)
    \/ Tick

SpecLogin == Init /\ [][NextLogin]_vars

\* C21: a LOGIN is taken to token issuance exactly when the user exists and
\* its stored verifier equals the presented credential, and is otherwise
\* answered ERROR:Invalid credentials with the user and token stores as they
\* were; the token issued expires LOGIN_EXPIRES_IN after the clock reading of
\* its creation and carries the permissions the user has at that reading; the
\* entry is stored under the string returned in TOKEN:<t>.
C21_LoginIssuesTokenIffVerified ==
    [][\A c \in Conns :
          /\ \A r \in ReqsLogin :
                (r.cmd = "LOGIN" /\ JustRead(c, r))
                => IF r.user \in DOMAIN users
                      /\ users[r.user].password_hash = r.cred
                   THEN pc'[c] = "gen_perms"
                   ELSE /\ last'.resp = <<"ERROR:Invalid credentials">>
                        /\ pc'[c] = "idle"
                        /\ UNCHANGED <<users, auth_tokens>>
          /\ (req[c].cmd = "LOGIN" /\ pc[c] = "gen_perms"
              /\ pc'[c] = "gen_insert")
                => /\ loc'[c].gen[1].auth_token.user_id = req[c].user
                   /\ loc'[c].gen[1].auth_token.expires_at
                         = Some(now + LOGIN_EXPIRES_IN)
                   /\ loc'[c].gen[1].auth_token.permissions
                         = users[req[c].user].permissions
                   /\ UNCHANGED <<users, auth_tokens>>
          /\ (req[c].cmd = "LOGIN" /\ pc[c] = "gen_insert"
              /\ pc'[c] = "idle")
                => /\ last'.resp = <<"TOKEN:", loc[c].gen[1].token>>
                   /\ loc[c].gen[1].token \in DOMAIN auth_tokens'
                   /\ auth_tokens'[loc[c].gen[1].token]
                         = loc[c].gen[1].auth_token
                   /\ users' = users]_vars

\* a LOGIN has just returned a token that expires and that carries
\* permissions a CREATE_TOKEN had given to the user
C21_Witness_TokenIssuedAfterUpsert ==
    /\ last.req.cmd = "LOGIN"
    /\ last.resp # <<>> /\ last.resp[1] = "TOKEN:"
    /\ auth_tokens[last.resp[2]].expires_at # None
    /\ auth_tokens[last.resp[2]].permissions = {"Read"}

\* SpecWindow: one rule for the name a, of one signal per window of one
\* second; connections emit a while the clock runs past the window and the
\* sweeper runs.
ReqsWindow ==
    {EmitReq(InitialToken, NameA, 0, None),
     RateLimitReq(InitialToken, NameA, 1, 1)}

\* time passes, one second beyond the longest window
TickWindow ==
    /\ now < MaxTime + 1
    /\ now' = now + 1
    /\ last' = NoLast
    /\ UNCHANGED <<store_vars, channels, rl_order, held, pc, req, loc,
                   peer_open, sw_pc, ghost_vars, match_vars>>

NextWindow ==
    \/ \E c \in Conns : \E r \in ReqsWindow :
          WithinBounds(r, MaxId, MaxSubs) /\ Accept(c, r)
    \/ \E c \in Conns : EmitRateLimit(c)
    \/ \E c \in Conns : EmitAllocId(c)
    \/ \E c \in Conns : EmitPushHistory(c)
    \/ \E c \in Conns : EmitFanoutLock(c)
    \/ \E c \in Conns : SetRateLimit(c)
    \/ SweepExpired
    \/ SweepCounters
    \/ TickWindow

SpecWindow == Init /\ [][NextWindow]_vars

\* connection c's emit passes check_rate_limit in this step, under the single
\* rule p, when the oldest counted admission is `age` old or older
AdmittedAtAge(c, p, age) ==
    (/\ pc[c] = "rate" /\ pc'[c] # "rate"
     /\ DOMAIN rate_limits = {p}
     /\ rate_limits[p].max_signals >= 1
     /\ pattern_match(p, req[c].name)
     /\ p \in DOMAIN signal_counters
     /\ signal_counters[p] # <<>>
     /\ now - signal_counters[p][1] >= age)
    => pc'[c] = "alloc_id"

\* C22 (as claimed): with a single rule in force, a matching emit is admitted
\* when `window` seconds have elapsed since the oldest counted admission.
C22_AdmittedOnceWindowElapsed ==
    [][\A c \in Conns : \A p \in Patterns :
          p \in DOMAIN rate_limits
              => AdmittedAtAge(c, p, rate_limits[p].time_window)]_vars

\* C22 (amended): with a single rule in force, a matching emit is admitted
\* when more than `window` seconds have elapsed since the oldest counted
\* admission, whatever attempts were rejected in between.
C22_AdmittedAfterWindowElapsed ==
    [][\A c \in Conns : \A p \in Patterns :
          p \in DOMAIN rate_limits
              => AdmittedAtAge(c, p, rate_limits[p].time_window + 1)]_vars

\* an emit has passed the limiter after the window of an admission counted
\* under the rule at time 0 had run out
C22_Witness_AdmittedAfterWindow ==
    \E c \in Conns :
        /\ pc[c] = "alloc_id"
        /\ DOMAIN rate_limits = {NameA}
        /\ adm_by[NameA][0] = 1
        /\ NameA \in DOMAIN signal_counters
        /\ signal_counters[NameA] = <<now>>
        /\ now > rate_limits[NameA].time_window

\* the period of the sweeper: 60 s, scaled to the model's clock
SWEEP_PERIOD == 1

\* C23 (as claimed): after the first sweep, every entry of the history has no
\* ttl or has timestamp + ttl > (clock reading of the last sweep) -
\* SWEEP_PERIOD, whatever timestamps and ttls the clients sent.
C23_HistoryHoldsNoLongExpired ==
    last_sweep # None =>
        \A i \in DOMAIN signal_history :
            \/ signal_history[i].ttl = None
            \/ signal_history[i].signal.timestamp + signal_history[i].ttl[1]
                  > last_sweep[1] - SWEEP_PERIOD

\* C24 (as claimed): a task that is writing the SHOW_RATE_LIMITS response to
\* its socket, or that is suspended in a send to a full delivery queue, holds
\* no lock.
C24_NoLockAcrossIoOrSend ==
    \A c \in Conns :
        (pc[c] = "show_write" \/ SendBlocked(c))
            => \A l \in LockNames : held[l] # Some(c)

\* the locks whose guards are alive together in the step a connection task
\* takes at pc p: check_rate_limit locks rate_limits and then signal_counters
\* with the first guard alive; every other function locks one Mutex
SectionLocks(p) ==
    CASE p = "rate" -> {"rate_limits", "signal_counters"}
      [] p = "push_hist" -> {"signal_history"}
      [] p \in {"fanout_lock", "fanout", "subscribe"} -> {"subscribers"}
      [] p = "history" -> {"signal_history"}
      [] p \in {"set_rate", "show_lock", "show_write"} -> {"rate_limits"}
      [] p \in {"add_user", "gen_perms"} -> {"users"}
      [] p \in {"gen_insert", "revoke"} -> {"auth_tokens"}
      [] OTHER -> {}

\* the same for the steps of the sweeper: cleanup_expired, and
\* cleanup_rate_limit_counters, which locks as check_rate_limit does
SweeperLocks(p) ==
    CASE p = "expired" -> {"signal_history"}
      [] p = "counters" -> {"rate_limits", "signal_counters"}
      [] OTHER -> {}

\* C25 (as claimed): no step of a connection task or of the sweeper has more
\* than one lock at a time, and an emit goes through the rate limiter, the
\* history and the registry in that order, holding none of their locks from
\* one to the next.
C25_OneLockAtATimeInOrder ==
    [][/\ \A c \in Conns :
            /\ pc'[c] \in {"rate", "alloc_id", "push_hist", "fanout_lock"}
                  => \A l \in LockNames : held'[l] # Some(c)
            /\ pc'[c] # pc[c] =>
                  /\ Cardinality(SectionLocks(pc[c])) <= 1
                  /\ pc[c] = "rate" => pc'[c] \in {"alloc_id", "idle"}
                  /\ pc[c] = "alloc_id" => pc'[c] = "push_hist"
                  /\ pc[c] = "push_hist" => pc'[c] = "fanout_lock"
       /\ sw_pc' # sw_pc => Cardinality(SweeperLocks(sw_pc)) <= 1]_vars

\* C26 (as claimed): the add_user of a CREATE_TOKEN creates the user, with the
\* placeholder verifier and the requested permissions, when it does not
\* exist, and leaves the stored verifier of an existing user as it is.
C26_CreateTokenKeepsVerifier ==
    [][\A c \in Conns :
          (pc[c] = "add_user" /\ pc'[c] # "add_user") =>
              LET u == req[c].user
              IN  /\ u \in DOMAIN users'
                  /\ IF u \in DOMAIN users
                     THEN users'[u].password_hash = users[u].password_hash
                     ELSE users'[u] = [password_hash |-> "default_password",
                                       permissions |-> req[c].perms]]_vars

\* C27 (as claimed): the string generate_token stores and returns is never
\* one that is in the token store, so that no stored entry is replaced.
C27_GeneratedTokenIsFresh ==
    [][\A c \in Conns :
          (pc[c] = "gen_insert" /\ pc'[c] # "gen_insert") =>
              /\ loc[c].gen[1].token \notin DOMAIN auth_tokens
              /\ \A tok \in DOMAIN auth_tokens :
                    tok \in DOMAIN auth_tokens'
                    /\ auth_tokens'[tok] = auth_tokens[tok]]_vars

\* C28: a step that changes a user's record (the add_user of a CREATE_TOKEN)
\* changes for no token and no permission what authenticate answers.
C28_TokenPermissionsAreSnapshot ==
    [][users' # users =>
          \A tok \in TokenStrs :
              \A required \in {None} \cup {Some(p) : p \in Permissions} :
                  (authenticate(auth_tokens, tok, required, now))'
                      = authenticate(auth_tokens, tok, required, now)]_vars

\* a stored token is authorized for Admin although the record of its user no
\* longer holds Admin
C28_Witness_TokenOutlivesUserChange ==
    \E tok \in DOMAIN auth_tokens :
        /\ authenticate(auth_tokens, tok, Some("Admin"), now)
        /\ auth_tokens[tok].user_id \in DOMAIN users
        /\ users[auth_tokens[tok].user_id].permissions = {"Read"}

\* C30 (as claimed): the token a CREATE_TOKEN request stores and returns
\* carries exactly the permissions of that request, whatever other
\* CREATE_TOKEN requests for the same user run at the same time.
C30_CreatedTokenCarriesRequestedPermissions ==
    [][\A c \in Conns :
          (req[c].cmd = "CREATE_TOKEN" /\ pc[c] = "gen_insert"
           /\ pc'[c] = "idle")
          => /\ last'.resp = <<"New token created: ", loc[c].gen[1].token>>
             /\ auth_tokens'[loc[c].gen[1].token].permissions
                   = req[c].perms]_vars

\* C29: when the receiver of the next matching subscription has been dropped,
\* the send changes no queue and publish goes on.  The signal is in the
\* history; the clients still to visit stay to be visited, and after the last
\* one the EMIT is answered OK.
C29_SendToDroppedReceiverDiscarded ==
    [][\A c \in WideConns :
          (/\ pc[c] = "fanout"
           /\ ~channels[Head(loc[c].todo)].rx_open
           /\ <<pc[c], loc[c]>>' # <<pc[c], loc[c]>>)
          => /\ channels' = channels
             /\ \E i \in DOMAIN signal_history :
                   /\ signal_history[i].id = loc[c].id
                   /\ signal_history[i].signal = SignalOf(req[c])
             /\ signal_history' = signal_history
             /\ IF Tail(loc[c].todo) = <<>>
                THEN last' = [conn |-> c, req |-> req[c], resp |-> RespOK]
                ELSE /\ pc'[c] = "fanout"
                     /\ loc'[c].todo = Tail(loc[c].todo)]_vars

\* an EMIT has just been answered OK after the last send of its fanout, which
\* was to a dropped receiver: the one matching pattern has two subscriptions,
\* the first with the signal in its queue and the second, visited last, with
\* its receiver dropped
C29_Witness_OkWithDroppedAndLiveSubscriber ==
    /\ last.req.cmd = "EMIT"
    /\ last.resp = RespOK
    /\ \E p \in DOMAIN subscribers :
          /\ MatchingPatterns(subscribers, last.req.name) = {p}
          /\ Len(subscribers[p]) = 2
          /\ channels[subscribers[p][1]].rx_open
          /\ channels[subscribers[p][1]].queue = <<SignalOf(last.req)>>
          /\ ~channels[subscribers[p][2]].rx_open

\* ------------------------------------------------------------- lock level
\* The tasks seen as the sequences of Mutex operations they perform, every
\* lock().await and every drop of a guard being a step of its own.
Lock(l) == [op |-> "lock", lock |-> l]
Unlock(l) == [op |-> "unlock", lock |-> l]

\* a function that locks one Mutex and returns
Alone(l) == <<Lock(l), Unlock(l)>>

\* mutant: signal_counters is locked before rate_limits
CleanupCountersOps_CountersFirst ==
    <<Lock("signal_counters"), Lock("rate_limits"),
      Unlock("rate_limits"), Unlock("signal_counters")>>

\* cleanup_rate_limit_counters: limits, then counters with limits alive; the
\* guards are dropped in the reverse order of their declaration
CleanupCountersOps ==
    <<Lock("rate_limits"), Lock("signal_counters"),
      Unlock("signal_counters"), Unlock("rate_limits")>>

\* check_rate_limit locks as cleanup_rate_limit_counters does
CheckRateLimitOps ==
    <<Lock("rate_limits"), Lock("signal_counters"),
      Unlock("signal_counters"), Unlock("rate_limits")>>

\* generate_token: get_user_permissions locks users and returns, then the
\* token table is locked
GenerateTokenOps == Alone("users") \o Alone("auth_tokens")

\* publish: check_rate_limit, add_to_history, then the registry, whose guard
\* lives over the sends until publish returns
PublishOps ==
    CheckRateLimitOps \o Alone("signal_history") \o Alone("subscribers")

\* the Mutex operations of the handler of each command
HandlerOps(cmd) ==
    CASE cmd = "LOGIN" -> Alone("users") \o GenerateTokenOps
      [] cmd = "CREATE_TOKEN" ->
            Alone("auth_tokens") \o Alone("users") \o GenerateTokenOps
      [] cmd = "REVOKE_TOKEN" -> Alone("auth_tokens") \o Alone("auth_tokens")
      [] cmd = "EMIT" -> Alone("auth_tokens") \o PublishOps
      [] cmd = "LISTEN" -> Alone("auth_tokens") \o Alone("subscribers")
      [] cmd = "HISTORY" -> Alone("auth_tokens") \o Alone("signal_history")
      [] cmd = "RATE_LIMIT" -> Alone("auth_tokens") \o Alone("rate_limits")
      [] cmd = "SHOW_RATE_LIMITS" ->
            Alone("auth_tokens") \o Alone("rate_limits")

\* start_cleanup_task: cleanup_expired, cleanup_rate_limit_counters, and
\* again; sw_pc is the label of the operation the sweeper performs next
SweeperOps == Alone("signal_history") \o CleanupCountersOps
SweeperLabels ==
    <<"expired", "expired_locked", "counters", "counters_second",
      "counters_locked", "counters_first_drop">>
SweeperAt == CHOOSE i \in DOMAIN SweeperLabels : SweeperLabels[i] = sw_pc

\* the holder that stands for the sweeper task
Sweeper == 0

\* the operation connection task c performs next, if any
NextOp(c) ==
    IF c = Sweeper THEN Some(SweeperOps[SweeperAt])
    ELSE IF pc[c] = "locks" /\ req[c].ops # <<>> THEN Some(Head(req[c].ops))
    ELSE None

\* the effect of the operation o of task c on the Mutexes: lock().await
\* completes only when the Mutex is free
DoOp(c, o) ==
    IF o.op = "lock"
    THEN /\ held[o.lock] = Free
         /\ held' = [held EXCEPT ![o.lock] = Some(c)]
    ELSE held' = [held EXCEPT ![o.lock] = Free]

\* a connection is accepted and its handler starts
LockAccept(c, cmd) ==
    /\ CanAccept(c, cmd)
    /\ pc' = [pc EXCEPT ![c] = "locks"]
    /\ req' = [req EXCEPT ![c] = [cmd |-> cmd, ops |-> HandlerOps(cmd)]]
    /\ last' = NoLast
    /\ UNCHANGED <<store_vars, env_vars, loc, peer_open, sw_pc, ghost_vars,
                   match_vars>>

\* the handler of connection c performs its next Mutex operation, and returns
\* after the last one
LockStep(c) ==
    /\ pc[c] = "locks"
    /\ DoOp(c, Head(req[c].ops))
    /\ IF Tail(req[c].ops) = <<>>
       THEN /\ pc' = [pc EXCEPT ![c] = "idle"]
            /\ req' = [req EXCEPT ![c] = NoReq]
       ELSE /\ pc' = pc
            /\ req' = [req EXCEPT ![c].ops = Tail(@)]
    /\ last' = NoLast
    /\ UNCHANGED <<store_vars, channels, rl_order, now, loc, peer_open, sw_pc,
                   ghost_vars, match_vars>>

\* the sweeper performs its next Mutex operation
SweeperLockStep ==
    /\ DoOp(Sweeper, SweeperOps[SweeperAt])
    /\ sw_pc' = SweeperLabels[(SweeperAt % Len(SweeperLabels)) + 1]
    /\ last' = NoLast
    /\ UNCHANGED <<store_vars, channels, rl_order, now, pc, req, loc,
                   peer_open, ghost_vars, match_vars>>

\* SpecLocks: the handlers of all commands and the sweeper, Mutex operation
\* by Mutex operation
Commands ==
    {"LOGIN", "CREATE_TOKEN", "REVOKE_TOKEN", "EMIT", "LISTEN", "HISTORY",
     "RATE_LIMIT", "SHOW_RATE_LIMITS"}

NextLocks ==
    \/ \E c \in Conns : \E cmd \in Commands : LockAccept(c, cmd)
    \/ \E c \in Conns : LockStep(c)
    \/ SweeperLockStep

SpecLocks == Init /\ [][NextLocks]_vars

\* the tasks of the daemon
Tasks == Conns \cup {Sweeper}

\* task a is suspended in the lock().await of a Mutex that task b holds
WaitsFor(a, b) ==
    /\ NextOp(a) # None
    /\ NextOp(a)[1].op = "lock"
    /\ held[NextOp(a)[1].lock] = Some(b)

\* the tasks reached from those of S along at most n waits
RECURSIVE WaitReach(_, _)
WaitReach(S, n) ==
    IF n = 0 THEN S
    ELSE WaitReach(S \cup {b \in Tasks : \E a \in S : WaitsFor(a, b)}, n - 1)

WaitCycle ==
    \E a \in Tasks :
        a \in WaitReach({b \in Tasks : WaitsFor(a, b)}, Cardinality(Tasks))

\* the one pair of Mutexes of which the second is locked while the first is
\* held
LockOrder == {<<"rate_limits", "signal_counters">>}

\* C31: no reachable state has a cycle of tasks each waiting for a Mutex that
\* another holds, and a task that locks a Mutex while it holds one holds
\* rate_limits and locks signal_counters; users is released before
\* auth_tokens is locked and every other Mutex is held alone.
C31_NoLockCycle ==
    /\ [](~WaitCycle)
    /\ [][\A t \in Tasks : \A l2 \in LockNames :
            (held'[l2] = Some(t) /\ held[l2] # Some(t)) =>
                \A l1 \in LockNames :
                    held[l1] = Some(t) => <<l1, l2>> \in LockOrder]_vars

\* a handler holds rate_limits and signal_counters together while the
\* sweeper and another handler wait for rate_limits
C31_Witness_TwoWaitOnRateLimiter ==
    \E a \in Conns :
        /\ held["rate_limits"] = Some(a)
        /\ held["signal_counters"] = Some(a)
        /\ WaitsFor(Sweeper, a)
        /\ \E b \in Conns \ {a} : WaitsFor(b, a)

\* the channels of the subscriptions whose pattern matches the name
MatchingChannels(signal_name) ==
    UNION {{subscribers[p][i] : i \in 1..Len(subscribers[p])} :
              p \in MatchingPatterns(subscribers, signal_name)}

\* the channels in the sequence todo
ChannelsOf(todo) == {todo[i] : i \in DOMAIN todo}

\* the history holds the entry that emit c pushed
InHistory(c) ==
    \E i \in DOMAIN signal_history :
        /\ signal_history[i].id = loc[c].id
        /\ signal_history[i].signal = SignalOf(req[c])

\* C32: an emit reaches its fanout by the step that appends its signal to the
\* history, and while it stands at or in its fanout the entry leaves the
\* history only when another emit's push evicts it from a full history
\* (nothing is swept here); the fanout sets out to visit every
\* matching subscription, the registry does not change during it, each of its
\* steps enqueues the signal to the next subscription or discards it because
\* the receiver is dropped, and OK is written only by the step that leaves no
\* subscription to visit.
C32_OkAfterHistoryAndFanout ==
    /\ [](\A c \in WideConns :
            pc[c] \in {"fanout_lock", "fanout"} =>
                InHistory(c) \/ Len(signal_history) = max_history_size)
    /\ [][\A c \in WideConns :
            /\ (pc[c] = "push_hist" /\ pc'[c] = "fanout_lock") =>
                  /\ signal_history' # <<>>
                  /\ signal_history'[Len(signal_history')].id = loc[c].id
                  /\ signal_history'[Len(signal_history')].signal = SignalOf(req[c])
                  /\ InHistory(c)'
            /\ (pc[c] \in {"fanout_lock", "fanout"} /\ InHistory(c)
                /\ signal_history' # signal_history) =>
                  \/ last'.conn = c /\ last'.resp = RespOK
                  \/ InHistory(c)'
                  \/ /\ Len(signal_history) = max_history_size
                     /\ \E d \in WideConns \ {c} :
                           pc[d] = "push_hist" /\ pc'[d] = "fanout_lock"
            /\ (pc[c] = "fanout_lock" /\ pc'[c] = "fanout") =>
                  ChannelsOf(loc'[c].todo) = MatchingChannels(req[c].name)
            /\ pc[c] = "fanout" => subscribers' = subscribers
            /\ (pc[c] = "fanout" /\ <<pc[c], loc[c]>>' # <<pc[c], loc[c]>>) =>
                  LET ch == Head(loc[c].todo)
                  IN  /\ \/ /\ channels[ch].rx_open
                            /\ channels'[ch].queue =
                                  Append(channels[ch].queue, SignalOf(req[c]))
                         \/ ~channels[ch].rx_open /\ channels' = channels
                      /\ pc'[c] = "fanout" => loc'[c].todo = Tail(loc[c].todo)
            /\ (last'.conn = c /\ last'.req.cmd = "EMIT"
                /\ last'.resp = RespOK) =>
                  \/ /\ pc[c] = "fanout_lock"
                     /\ MatchingChannels(req[c].name) = {}
                  \/ pc[c] = "fanout" /\ Tail(loc[c].todo) = <<>>]_vars

\* an EMIT has just been answered OK: its signal is in the history and in the
\* queues of two matching subscriptions
C32_Witness_OkWithSignalEverywhere ==
    /\ last.req.cmd = "EMIT"
    /\ last.resp = RespOK
    /\ \E i \in DOMAIN signal_history :
          signal_history[i].signal = SignalOf(last.req)
    /\ Cardinality(MatchingChannels(last.req.name)) = 2
    /\ \A ch \in MatchingChannels(last.req.name) :
          /\ channels[ch].rx_open
          /\ channels[ch].queue = <<SignalOf(last.req)>>

\* SpecFanout: two publishing connections next to two listening ones.  Every
\* request carries the admin token; the listeners subscribe to a:* and keep
\* their sockets open.
ReqsFanout ==
    {EmitReq(InitialToken, n, 0, None) : n \in SignalNames}
    \cup {ListenReq(InitialToken, PatAStar)}

NextFanout ==
    \/ \E c \in TaskSlots : \E r \in ReqsFanout :
          WithinBounds(r, MaxId, MaxSubs + 1) /\ Accept(c, r)
    \/ \E c \in TaskSlots : EmitRateLimit(c)
    \/ \E c \in TaskSlots : EmitAllocId(c)
    \/ \E c \in TaskSlots : EmitPushHistory(c)
    \/ \E c \in TaskSlots : EmitFanoutLock(c)
    \/ \E c \in TaskSlots : EmitFanoutSend(c)
    \/ \E c \in TaskSlots : ListenSubscribe(c)
    \/ \E c \in TaskSlots : ListenRecv(c)
    \/ \E c \in TaskSlots : ListenWrite(c)

SpecFanout == Init /\ [][NextFanout]_vars

\* listener c has received signal x and has signal y next in its queue
ReceivedBefore(c, x, y) ==
    /\ pc[c] = "writing"
    /\ loc[c].cur = Some(x)
    /\ channels[loc[c].rx].queue # <<>>
    /\ Head(channels[loc[c].rx].queue) = y

\* the tasks inside the loops of publish
InFanout == {c \in TaskSlots : pc[c] = "fanout"}

\* C33: fanouts are serialized by the registry lock.  At most one task is
\* inside the loops of publish, and it is the holder of the registry lock;
\* every signal that enters a subscriber's queue is sent by that holder, and
\* the holder sends nothing but its own signal until publish returns.  So no
\* two subscribers receive two different signals in opposite orders, from
\* whichever connections the signals come.
C33_FanoutsSerialized ==
    /\ [](/\ Cardinality(InFanout) <= 1
          /\ \A c \in TaskSlots :
               pc[c] = "fanout" <=> held["subscribers"] = Some(c)
          /\ \A c \in TaskSlots, d \in TaskSlots :
               \A x \in {SignalOf(r) : r \in ReqsFanout \ {ListenReq(InitialToken, PatAStar)}} :
               \A y \in {SignalOf(r) : r \in ReqsFanout \ {ListenReq(InitialToken, PatAStar)}} :
                   (x # y /\ ReceivedBefore(c, x, y)) => ~ReceivedBefore(d, y, x))
    /\ [][\A ch \in DOMAIN channels :
            Len(channels'[ch].queue) > Len(channels[ch].queue) =>
                \E c \in TaskSlots :
                    /\ held["subscribers"] = Some(c)
                    /\ channels'[ch].queue =
                           Append(channels[ch].queue, SignalOf(req[c]))
                    /\ held'["subscribers"] \in {Some(c), Free}]_vars

\* two listeners have both received the first of two different signals and
\* have the second one queued, and the second signal's publisher, which was
\* accepted while the first one's was still being served, has just got its OK
C33_Witness_TwoPublishersTwoListeners ==
    /\ last.conn = NumConns + 2
    /\ last.req.cmd = "EMIT"
    /\ last.resp = RespOK
    /\ \E c \in TaskSlots, d \in TaskSlots :
          /\ c # d
          /\ \E x \in {SignalOf(r) : r \in ReqsFanout \ {ListenReq(InitialToken, PatAStar)}} :
                /\ x # SignalOf(last.req)
                /\ ReceivedBefore(c, x, SignalOf(last.req))
                /\ ReceivedBefore(d, x, SignalOf(last.req))

====
